---- MODULE Spec2Model ----
(***************************************************************************)
(* A model of the cremalink device wire protocol: the CRC16 engine, the    *)
(* TLV parameter codec, the brew/stop command builder and the local LAN    *)
(* key-derivation and AES-CBC payload protocol with its rotating IV.       *)
(*                                                                         *)
(* Bytes are integers 0..255 and a bytes object is a sequence of them.     *)
(* A Python int of unbounded size is a sequence of bits, least significant *)
(* bit first (PyInt).  A Python dict is a sequence of <<key, value>> pairs *)
(* with distinct keys, in insertion order.  A character of a hex string is *)
(* a one-character string; a character of a base64 string is its index in  *)
(* the base64 alphabet (0..63), with 64 standing for the '=' padding.      *)
(***************************************************************************)
EXTENDS Integers, Sequences, FiniteSets, TLC

VARIABLES
    crcData,     \* crc16_ccitt: the bytes handed to the call
    crcOut,      \* crc16_ccitt: the bytes returned
    crcPc,       \* "call" before the call, "ret" after it
    tlvParams,   \* TLV codec: the tag -> value dict handed to encode_tlv_params
    tlvData,     \* TLV codec: the TLV byte stream (encoded, or received)
    tlvWire,     \* TLV codec: the complete entries written into a received stream
    tlvOut,      \* TLV codec: the dict returned by parse_tlv_params
    tlvPc,       \* TLV codec: "build", "encoded", "decoded", "wire", "cut", "parsed"
    cmdOp,       \* command builder: "brew" (build_brew_command) or "stop"
    cmdBev,      \* command builder: the bev_id argument, <<>> when omitted
    cmdParams,   \* command builder: the params argument (a dict)
    cmdTrigger,  \* command builder: the trigger argument, <<>> when omitted
    cmdOut,      \* command builder: the outcome of the call
    cmdPc,       \* command builder: "call" before the call, "ret" after it
    dkArgs,      \* derive_keys: lan_key, random_1, random_2, time_1, time_2
    dkOut,       \* derive_keys: the tuple returned
    dkPc,        \* derive_keys: "call" before the call, "ret" after it
    aesMsg,      \* aes_encrypt: the message (a string)
    aesKey,      \* aes_encrypt / aes_decrypt: the key
    aesIv,       \* aes_encrypt / aes_decrypt: the IV
    aesEnc,      \* the outcome of aes_encrypt
    aesDec,      \* the outcome of aes_decrypt on what aes_encrypt returned
    aesPc,       \* "call", "encrypted", "decrypted"
    sessKeys,    \* LAN session: the five secrets derive_keys returned
    sendIv,      \* LAN session: per direction, the IV its sender holds
    recvIv,      \* LAN session: per direction, the IV its receiver holds
    wire,        \* LAN session: per direction, the enc strings in flight
    sentLog,     \* LAN session: per direction, the payloads encrypted so far
    cipherLog,   \* LAN session: per direction, the raw ciphertext of each message
    recvLog,     \* LAN session: per direction, the bytes decrypted so far
    monB64,      \* monitor decoder: the base64 text received
    monOut,      \* monitor decoder: the outcome of MonitorFrame.from_b64
    monPayload,  \* monitor decoder: the payload handed to build_monitor_snapshot
    monSnap,     \* monitor decoder: the outcome of build_monitor_snapshot
    monPc,       \* monitor decoder: "call", "frame", "snapshot"
    recParts,    \* recipe decoder: how the frame received was put together
    recB64,      \* recipe decoder: the base64 text handed to decode_recipe_b64
    recOut,      \* recipe decoder: what decode_recipe_b64 returned
    recPc,       \* recipe decoder: "call" before the call, "ret" after it
    viewSnap,    \* the MonitorSnapshot a MonitorView is built on (frame, raw_b64)
    viewConfig,  \* the profile given to MonitorView (how it was loaded, flags, predicates)
    viewFrame,   \* MonitorView._frame (<<>> is None)
    viewItem,    \* the attribute looked up on the view
    viewOut,     \* what the lookup returned or raised
    viewPc,      \* position of the caller of MonitorView
    redDetails,  \* the two details dicts handed to redact (<<>> is None or {})
    redOut,      \* what redact returned for each
    redPc,       \* position of the caller of redact
    propRaw,     \* PropertiesSnapshot.raw, the properties of the device
    propOut,     \* what get_profile_names returned
    propPc,      \* position of the caller of get_profile_names
    ltSelf,      \* the LocalTransport (_configured, _auto_configure, monitor property name)
    ltPosts,     \* the POSTs sent to the local server, in order, with the answer to each
    ltCall,      \* the method called last
    ltOut,       \* the exception the last call raised, if any
    ltPc,        \* position of the owner of the transport
    jobCo,       \* the coroutine of each job: position, task state, what it did since its last wait ended, stop observed
    jobSt,       \* the fields of the server state the jobs read and register_with_device sets
    jobStop,     \* stop_event
    jobMgr,      \* the JobManager: tasks, and the position of stop()
    jobTimeouts, \* number of poll intervals that have elapsed
    locKeys,     \* local session: the key set installed (the five secrets)
    locIv,       \* local session: the IV each direction's next operation starts from
    locLock,     \* local session: the operation in flight on each direction, if any
    locOps,      \* the concurrent operations: position, direction, argument, keys and IV read
    locRekeys,   \* the rekey() calls in progress: the key set each has derived
    locExchanges,\* the key sets derived so far, one per key exchange
    locLog       \* per direction, the IV and ciphertext of each operation since the keys were installed

varsCrc == <<crcData, crcOut, crcPc>>

varsTlv == <<tlvParams, tlvData, tlvWire, tlvOut, tlvPc>>

varsCmd == <<cmdOp, cmdBev, cmdParams, cmdTrigger, cmdOut, cmdPc>>

varsKeys == <<dkArgs, dkOut, dkPc>>

varsAes == <<aesMsg, aesKey, aesIv, aesEnc, aesDec, aesPc>>

varsSess == <<sessKeys, sendIv, recvIv, wire, sentLog, cipherLog, recvLog>>

varsMon == <<monB64, monOut, monPayload, monSnap, monPc>>

varsRec == <<recParts, recB64, recOut, recPc>>

varsView == <<viewSnap, viewConfig, viewFrame, viewItem, viewOut, viewPc>>

varsRed == <<redDetails, redOut, redPc>>

varsProp == <<propRaw, propOut, propPc>>

varsLt == <<ltSelf, ltPosts, ltCall, ltOut, ltPc>>

varsJob == <<jobCo, jobSt, jobStop, jobMgr, jobTimeouts>>

varsLoc == <<locKeys, locIv, locLock, locOps, locRekeys, locExchanges, locLog>>

\* The variables an operation of one component leaves alone.
varsNotCrc == <<varsTlv, varsCmd, varsKeys, varsAes, varsSess, varsMon,
    varsRec, varsView, varsRed, varsProp, varsLt, varsJob, varsLoc>>

varsNotTlv == <<varsCrc, varsCmd, varsKeys, varsAes, varsSess, varsMon,
    varsRec, varsView, varsRed, varsProp, varsLt, varsJob, varsLoc>>

varsNotCmd == <<varsCrc, varsTlv, varsKeys, varsAes, varsSess, varsMon,
    varsRec, varsView, varsRed, varsProp, varsLt, varsJob, varsLoc>>

varsNotKeys == <<varsCrc, varsTlv, varsCmd, varsAes, varsSess, varsMon,
    varsRec, varsView, varsRed, varsProp, varsLt, varsJob, varsLoc>>

varsNotAes == <<varsCrc, varsTlv, varsCmd, varsKeys, varsSess, varsMon,
    varsRec, varsView, varsRed, varsProp, varsLt, varsJob, varsLoc>>

varsNotSess == <<varsCrc, varsTlv, varsCmd, varsKeys, varsAes, varsMon,
    varsRec, varsView, varsRed, varsProp, varsLt, varsJob, varsLoc>>

varsNotMon == <<varsCrc, varsTlv, varsCmd, varsKeys, varsAes, varsSess,
    varsRec, varsView, varsRed, varsProp, varsLt, varsJob, varsLoc>>

varsNotRec == <<varsCrc, varsTlv, varsCmd, varsKeys, varsAes, varsSess,
    varsMon, varsView, varsRed, varsProp, varsLt, varsJob, varsLoc>>

varsNotView == <<varsCrc, varsTlv, varsCmd, varsKeys, varsAes, varsSess,
    varsMon, varsRec, varsRed, varsProp, varsLt, varsJob, varsLoc>>

varsNotRed == <<varsCrc, varsTlv, varsCmd, varsKeys, varsAes, varsSess,
    varsMon, varsRec, varsView, varsProp, varsLt, varsJob, varsLoc>>

varsNotProp == <<varsCrc, varsTlv, varsCmd, varsKeys, varsAes, varsSess,
    varsMon, varsRec, varsView, varsRed, varsLt, varsJob, varsLoc>>

varsNotLt == <<varsCrc, varsTlv, varsCmd, varsKeys, varsAes, varsSess,
    varsMon, varsRec, varsView, varsRed, varsProp, varsJob, varsLoc>>

varsNotJob == <<varsCrc, varsTlv, varsCmd, varsKeys, varsAes, varsSess,
    varsMon, varsRec, varsView, varsRed, varsProp, varsLt, varsLoc>>

varsNotLoc == <<varsCrc, varsTlv, varsCmd, varsKeys, varsAes, varsSess,
    varsMon, varsRec, varsView, varsRed, varsProp, varsLt, varsJob>>

vars == <<varsCrc, varsTlv, varsCmd, varsKeys, varsAes, varsSess, varsMon,
    varsRec, varsView, varsRed, varsProp, varsLt, varsJob, varsLoc>>

(***************************************************************************)
(* Bounds of the model.                                                    *)
(***************************************************************************)
MaxCrcLen == 2

MaxTlvParams == 3

MaxTlvEntries == 2

MaxMsgs == 3

\* Number of posts a LocalTransport sends in the model.
MaxPosts == 4

\* Number of poll intervals that elapse while the jobs run.
MaxTimeouts == 1

\* Number of key exchanges of a local session after the first.
MaxRekeys == 2

(***************************************************************************)
(* Python built-ins used by the code.                                      *)
(***************************************************************************)
Max(a, b) == IF a >= b THEN a ELSE b

Min(a, b) == IF a <= b THEN a ELSE b

IsByte(x) == x \in 0..255

\* s[start:stop] of Python for a sequence s (0-based, negative indexes count
\* from the end, both ends clamped to the sequence).
PySlice(s, start, stop) ==
    LET n  == Len(s)
        a0 == IF start < 0 THEN Max(n + start, 0) ELSE Min(start, n)
        b0 == IF stop < 0 THEN Max(n + stop, 0) ELSE Min(stop, n)
    IN  IF a0 >= b0 THEN <<>> ELSE SubSeq(s, a0 + 1, b0)

\* x ^ y and x & y on non-negative integers that fit a machine word.
RECURSIVE BitXor(_, _)
BitXor(x, y) ==
    IF x = 0 THEN y
    ELSE IF y = 0 THEN x
    ELSE (((x % 2) + (y % 2)) % 2) + 2 * BitXor(x \div 2, y \div 2)

RECURSIVE BitAnd(_, _)
BitAnd(x, y) ==
    IF x = 0 \/ y = 0 THEN 0
    ELSE ((x % 2) * (y % 2)) + 2 * BitAnd(x \div 2, y \div 2)

\* x >> k of Python for any integer x (an arithmetic shift: floor division).
RECURSIVE ShiftRight(_, _)
ShiftRight(x, k) ==
    IF k = 0 THEN x
    ELSE ShiftRight(IF x >= 0 THEN x \div 2 ELSE -((1 - x) \div 2), k - 1)

\* x & 0xFF of Python for any integer x (two's complement for negative x).
Mask8(x) == x % 256

(***************************************************************************)
(* Python's unbounded int, as used for the CRC register: a sequence of     *)
(* bits, least significant first.                                          *)
(***************************************************************************)
RECURSIVE PyInt(_)
PyInt(n) == IF n = 0 THEN <<>> ELSE <<n % 2>> \o PyInt(n \div 2)

PyBit(x, i) == IF i + 1 <= Len(x) THEN x[i + 1] ELSE 0

PyXor(x, y) ==
    LET n == Min(Len(x), Len(y))
    IN  [i \in 1..n |-> (x[i] + y[i]) % 2]
            \o SubSeq(x, n + 1, Len(x)) \o SubSeq(y, n + 1, Len(y))

PyShl(x, k) == [i \in 1..k |-> 0] \o x

\* x & mask as an ordinary integer, for a mask of w one-bits (0xFFFF: w = 16).
RECURSIVE PyLow(_, _)
PyLow(x, w) == IF w = 0 THEN 0 ELSE PyBit(x, 0) + 2 * PyLow(Tail(x \o <<0>>), w - 1)

\* x | y on non-negative integers.
RECURSIVE BitOr(_, _)
BitOr(x, y) ==
    IF x = 0 THEN y
    ELSE IF y = 0 THEN x
    ELSE (IF (x % 2) + (y % 2) > 0 THEN 1 ELSE 0) + 2 * BitOr(x \div 2, y \div 2)

\* A call's outcome: the value returned, or the exception raised.
Ok(v) == [exc |-> "", val |-> v]

Raise(e) == [exc |-> e, val |-> <<>>]

\* dict: k in d, d[k], d[k] = v (a new key is appended, a known key keeps its
\* place), and d1 == d2 (which ignores the insertion order).
DictKeys(d) == {d[i][1] : i \in 1..Len(d)}

DictHas(d, k) == \E i \in 1..Len(d) : d[i][1] = k

DictGet(d, k) == d[CHOOSE i \in 1..Len(d) : d[i][1] = k][2]

DictSet(d, k, v) ==
    IF DictHas(d, k)
    THEN [i \in 1..Len(d) |-> IF d[i][1] = k THEN <<k, v>> ELSE d[i]]
    ELSE Append(d, <<k, v>>)

DictEq(d1, d2) ==
    /\ DictKeys(d1) = DictKeys(d2)
    /\ \A k \in DictKeys(d1) : DictGet(d1, k) = DictGet(d2, k)

\* sorted(S) for a set of integers.
Sorted(S) ==
    [i \in 1..Cardinality(S) |->
        CHOOSE x \in S : Cardinality({y \in S : y < x}) = i - 1]

SeqHas(s, x) == \E i \in 1..Len(s) : s[i] = x

\* bytes(list): ValueError when an item is outside range(256).
py_bytes(items) ==
    IF \A i \in 1..Len(items) : IsByte(items[i]) THEN Ok(items) ELSE Raise("ValueError")

\* bytes.hex(): two lowercase hex digits per byte, high nibble first.
HexDigits ==
    <<"0", "1", "2", "3", "4", "5", "6", "7", "8", "9", "a", "b", "c", "d", "e", "f">>

hex(b) ==
    [i \in 1..(2 * Len(b)) |->
        IF i % 2 = 1
        THEN HexDigits[(b[(i + 1) \div 2] \div 16) + 1]
        ELSE HexDigits[(b[i \div 2] % 16) + 1]]

\* int.to_bytes(2, byteorder="big")
to_bytes2(v) == <<v \div 256, v % 256>>

\* bytearray.fromhex(h) for a string of an even number of hex digits (the
\* code hands it slices of bytes.hex() output cut at even offsets).
fromhex(h) ==
    [i \in 1..(Len(h) \div 2) |->
        16 * ((CHOOSE v \in 1..16 : HexDigits[v] = h[2 * i - 1]) - 1)
           + ((CHOOSE v \in 1..16 : HexDigits[v] = h[2 * i]) - 1)]

\* str.encode(): the UTF-8 bytes of one code point below 0x10000, and of a
\* string (a sequence of code points).
utf8_char(cp) ==
    IF cp < 128 THEN <<cp>>
    ELSE IF cp < 2048 THEN <<192 + (cp \div 64), 128 + (cp % 64)>>
    ELSE <<224 + (cp \div 4096), 128 + ((cp \div 64) % 64), 128 + (cp % 64)>>

RECURSIVE str_encode(_)
str_encode(str) ==
    IF str = <<>> THEN <<>> ELSE utf8_char(Head(str)) \o str_encode(Tail(str))

\* base64.b64encode(b), .decode("utf-8"): 4 characters per group of 3 bytes,
\* the last group padded with '=' (64).
b64encode(b) ==
    [p \in 1..(4 * ((Len(b) + 2) \div 3)) |->
        LET g  == (p - 1) \div 4
            k  == (p - 1) % 4
            r  == Min(3, Len(b) - 3 * g)
            b0 == b[3 * g + 1]
            b1 == IF r >= 2 THEN b[3 * g + 2] ELSE 0
            b2 == IF r >= 3 THEN b[3 * g + 3] ELSE 0
        IN  CASE k = 0 -> b0 \div 4
              [] k = 1 -> (b0 % 4) * 16 + (b1 \div 16)
              [] k = 2 -> IF r >= 2 THEN (b1 % 16) * 4 + (b2 \div 64) ELSE 64
              [] k = 3 -> IF r >= 3 THEN b2 % 64 ELSE 64]

\* base64.b64decode(s) for a padded base64 string.
b64decode(s) ==
    LET pad == Cardinality({p \in 1..Len(s) : s[p] = 64})
        c(p) == IF s[p] = 64 THEN 0 ELSE s[p]
    IN  [q \in 1..(3 * (Len(s) \div 4) - pad) |->
            LET g == (q - 1) \div 3
                k == (q - 1) % 3
            IN  CASE k = 0 -> c(4 * g + 1) * 4 + (c(4 * g + 2) \div 16)
                  [] k = 1 -> (c(4 * g + 2) % 16) * 16 + (c(4 * g + 3) \div 4)
                  [] k = 2 -> (c(4 * g + 3) % 4) * 64 + c(4 * g + 4)]

\* base64.b64decode(s) for any string, as binascii.a2b_base64 computes it
\* without validation.  A character is an alphabet index 0..63, '=' (64), any
\* other ASCII character (65) or a non-ASCII character (66).  Characters
\* outside the alphabet are skipped; a run of '=' that completes a quad ends
\* the input; a quad left open at the end is an error; a non-ASCII character
\* is a ValueError of str.encode("ascii").
a2b_step(st, ch) ==
    IF st.done THEN st
    ELSE IF ch = 64 THEN
        IF st.quad_pos >= 2
        THEN [st EXCEPT !.pads = @ + 1, !.done = (st.quad_pos + st.pads + 1 >= 4)]
        ELSE st
    ELSE IF ch > 64 THEN st
    ELSE CASE st.quad_pos = 0 ->
                [st EXCEPT !.pads = 0, !.quad_pos = 1, !.leftchar = ch]
           [] st.quad_pos = 1 ->
                [st EXCEPT !.pads = 0, !.quad_pos = 2, !.leftchar = ch % 16,
                           !.out = Append(@, st.leftchar * 4 + (ch \div 16))]
           [] st.quad_pos = 2 ->
                [st EXCEPT !.pads = 0, !.quad_pos = 3, !.leftchar = ch % 4,
                           !.out = Append(@, st.leftchar * 16 + (ch \div 4))]
           [] st.quad_pos = 3 ->
                [st EXCEPT !.pads = 0, !.quad_pos = 0, !.leftchar = 0,
                           !.out = Append(@, st.leftchar * 64 + ch)]

RECURSIVE a2b_range(_, _, _, _)
a2b_range(st, s, lo, hi) ==
    IF lo > hi THEN st
    ELSE IF lo = hi THEN a2b_step(st, s[lo])
    ELSE LET mid   == (lo + hi) \div 2
             first == a2b_range(st, s, lo, mid)
         IN  IF first = first THEN a2b_range(first, s, mid + 1, hi) ELSE first

a2b_base64(s) ==
    IF \E i \in 1..Len(s) : s[i] = 66 THEN Raise("ValueError")
    ELSE LET st == a2b_range([quad_pos |-> 0, pads |-> 0, leftchar |-> 0,
                              out |-> <<>>, done |-> FALSE], s, 1, Len(s))
         IN  IF st.quad_pos # 0 /\ ~st.done THEN Raise("binascii.Error")
             ELSE Ok(st.out)

\* bytes.find(b"\x00"): the 0-based index of the first zero byte, or -1.
find_zero(data) ==
    IF \E i \in 1..Len(data) : data[i] = 0
    THEN (CHOOSE i \in 1..Len(data) : data[i] = 0 /\ \A j \in 1..(i - 1) : data[j] # 0) - 1
    ELSE -1

(***************************************************************************)
(* The library primitives, which the model replaces by stand-ins.          *)
(*                                                                         *)
(* hmac.new(key, data, sha256).digest() is a fixed function of (key, data) *)
(* with 32-byte values; the stand-in is a position-weighted checksum       *)
(* spread over 32 bytes.  AES is a keyed permutation of 16-byte blocks;    *)
(* the stand-in rotates the block by one byte and adds the key.  The CBC   *)
(* chaining around the block cipher is modelled as it is defined.          *)
(***************************************************************************)
RECURSIVE weigh(_, _, _)
weigh(s, lo, hi) ==
    IF lo > hi THEN 0
    ELSE IF lo = hi THEN (lo + 1) * (s[lo] + 1)
    ELSE weigh(s, lo, (lo + hi) \div 2) + weigh(s, ((lo + hi) \div 2) + 1, hi)

sha256_hmac(key, data) ==
    LET wk == weigh(key, 1, Len(key)) % 65521
        wd == weigh(data, 1, Len(data)) % 65521
    IN  [j \in 1..32 |-> (wk + 3 * wd + Len(data) + j * (2 * ((wk + wd) % 128) + 1)) % 256]

aes_block_encrypt(key, block) ==
    [i \in 1..16 |-> (block[(i % 16) + 1] + key[((i - 1) % Len(key)) + 1] + i) % 256]

aes_block_decrypt(key, block) ==
    [j \in 1..16 |->
        LET i == ((j + 14) % 16) + 1
        IN  (block[i] - key[((i - 1) % Len(key)) + 1] - i) % 256]

xor_block(a, b) == [i \in 1..16 |-> BitXor(a[i], b[i])]

\* AES.new(key, AES.MODE_CBC, iv).encrypt(raw): ValueError for a key that is
\* not 16, 24 or 32 bytes, an IV that is not 16 bytes, or data that is not a
\* whole number of blocks.
RECURSIVE cbc_encrypt_blocks(_, _, _)
cbc_encrypt_blocks(key, prev, raw) ==
    IF raw = <<>> THEN <<>>
    ELSE LET c == aes_block_encrypt(key, xor_block(SubSeq(raw, 1, 16), prev))
         IN  c \o cbc_encrypt_blocks(key, c, SubSeq(raw, 17, Len(raw)))

RECURSIVE cbc_decrypt_blocks(_, _, _)
cbc_decrypt_blocks(key, prev, enc) ==
    IF enc = <<>> THEN <<>>
    ELSE LET c == SubSeq(enc, 1, 16)
         IN  xor_block(aes_block_decrypt(key, c), prev)
                 \o cbc_decrypt_blocks(key, c, SubSeq(enc, 17, Len(enc)))

cbc_valid(key, iv, data) ==
    /\ Len(key) \in {16, 24, 32}
    /\ Len(iv) = 16
    /\ Len(data) % 16 = 0

AES_CBC_encrypt(key, iv, raw) ==
    IF cbc_valid(key, iv, raw) THEN Ok(cbc_encrypt_blocks(key, iv, raw))
    ELSE Raise("ValueError")

AES_CBC_decrypt(key, iv, enc) ==
    IF cbc_valid(key, iv, enc) THEN Ok(cbc_decrypt_blocks(key, iv, enc))
    ELSE Raise("ValueError")

(***************************************************************************)
(* crypto/__init__.py                                                      *)
(***************************************************************************)
BLOCK_SIZE == 16

hmac_for_key_and_data(key, data) == sha256_hmac(key, data)

\* Mutant of pad_zero: no padding for data that fills whole blocks.
pad_zero_exact(data) ==
    data \o [i \in 1..((BLOCK_SIZE - (Len(data) % BLOCK_SIZE)) % BLOCK_SIZE) |-> 0]

pad_zero(data) == data \o [i \in 1..(BLOCK_SIZE - (Len(data) % BLOCK_SIZE)) |-> 0]

unpad_zero(data) == PySlice(data, 0, find_zero(data))

extract_bits(raw, start, end) == fromhex(PySlice(hex(raw), start, end))

aes_encrypt(message, key, iv) ==
    LET raw == pad_zero(str_encode(message))
        enc == AES_CBC_encrypt(key, iv, raw)
    IN  IF enc.exc # "" THEN enc ELSE Ok(b64encode(enc.val))

aes_decrypt(enc, key, iv) ==
    LET decoded == b64decode(enc)
        dec     == AES_CBC_decrypt(key, iv, decoded)
    IN  IF dec.exc # "" THEN dec ELSE Ok(unpad_zero(dec.val))

\* Mutant of rotate_iv_from_ciphertext: the first 32 hex digits.
rotate_iv_from_first_block(enc) == fromhex(PySlice(hex(b64decode(enc)), 0, 32))

rotate_iv_from_ciphertext(enc) == fromhex(PySlice(hex(b64decode(enc)), -32, 2 * Len(b64decode(enc))))

(***************************************************************************)
(* local_server_app/protocol.py                                            *)
(***************************************************************************)
\* str(x) of a value that is a string already.
py_str(x) == x

\* Mutant of derive_keys: the device crypto key is derived from the nonces
\* in the app's order.
derive_keys_unswapped(lan_key, random_1, random_2, time_1, time_2) ==
    LET rnd_1s  == str_encode(random_1)
        rnd_2s  == str_encode(random_2)
        time_1s == str_encode(py_str(time_1))
        time_2s == str_encode(py_str(time_2))
        lan_key_bytes == str_encode(lan_key)
        mac(concat) ==
            hmac_for_key_and_data(lan_key_bytes,
                hmac_for_key_and_data(lan_key_bytes, concat) \o concat)
    IN  << mac(rnd_1s \o rnd_2s \o time_1s \o time_2s \o <<48>>),
           mac(rnd_1s \o rnd_2s \o time_1s \o time_2s \o <<49>>),
           extract_bits(mac(rnd_1s \o rnd_2s \o time_1s \o time_2s \o <<50>>), 0, 16 * 2),
           mac(rnd_1s \o rnd_2s \o time_1s \o time_2s \o <<49>>),
           extract_bits(mac(rnd_2s \o rnd_1s \o time_2s \o time_1s \o <<50>>), 0, 16 * 2) >>

\* Returns <<app_sign_key, app_crypto_key, app_iv_seed, dev_crypto_key,
\* dev_iv_seed>>; lastbyte is 0x30 (48), 0x31 (49) or 0x32 (50).
derive_keys(lan_key, random_1, random_2, time_1, time_2) ==
    LET rnd_1s  == str_encode(random_1)
        rnd_2s  == str_encode(random_2)
        time_1s == str_encode(py_str(time_1))
        time_2s == str_encode(py_str(time_2))
        lan_key_bytes == str_encode(lan_key)
        mac(concat) ==
            hmac_for_key_and_data(lan_key_bytes,
                hmac_for_key_and_data(lan_key_bytes, concat) \o concat)
    IN  << mac(rnd_1s \o rnd_2s \o time_1s \o time_2s \o <<48>>),
           mac(rnd_1s \o rnd_2s \o time_1s \o time_2s \o <<49>>),
           extract_bits(mac(rnd_1s \o rnd_2s \o time_1s \o time_2s \o <<50>>), 0, 16 * 2),
           mac(rnd_2s \o rnd_1s \o time_2s \o time_1s \o <<49>>),
           extract_bits(mac(rnd_2s \o rnd_1s \o time_2s \o time_1s \o <<50>>), 0, 16 * 2) >>

\* Mutant of encrypt_payload: the IV handed in is returned as the new IV.
encrypt_payload_stale(payload, crypto_key, iv_seed) ==
    LET enc == aes_encrypt(payload, crypto_key, iv_seed)
    IN  IF enc.exc # "" THEN enc
        ELSE Ok(<<enc.val, iv_seed>>)

\* Returns <<enc, new_iv>>.
encrypt_payload(payload, crypto_key, iv_seed) ==
    LET enc == aes_encrypt(payload, crypto_key, iv_seed)
    IN  IF enc.exc # "" THEN enc
        ELSE Ok(<<enc.val, rotate_iv_from_ciphertext(enc.val)>>)

\* Returns <<decrypted, new_iv>>.
decrypt_payload(enc, crypto_key, iv_seed) ==
    LET decrypted == aes_decrypt(enc, crypto_key, iv_seed)
    IN  IF decrypted.exc # "" THEN decrypted
        ELSE Ok(<<decrypted.val, rotate_iv_from_ciphertext(enc)>>)

\* The strings the model hands to derive_keys ("k1", "K", "Zk9"; "a", "ab"; "b",
\* "bc"; "1", "12"; "2", "1").
LanKeys == {<<107, 49>>, <<75>>, <<90, 107, 57>>}

Randoms1 == {<<97>>, <<97, 98>>}

Randoms2 == {<<98>>, <<98, 99>>, <<97>>}

Times1 == {<<49>>, <<49, 50>>}

Times2 == {<<50>>, <<49>>}

KeysInit ==
    /\ dkArgs \in [lan_key : LanKeys, random_1 : Randoms1, random_2 : Randoms2,
                   time_1 : Times1, time_2 : Times2]
    /\ dkOut = <<>>
    /\ dkPc = "call"

KeysIdle ==
    /\ dkArgs = <<>>
    /\ dkOut = <<>>
    /\ dkPc = "idle"

derive_keys_call ==
    /\ dkPc = "call"
    /\ dkOut' = derive_keys(dkArgs.lan_key, dkArgs.random_1, dkArgs.random_2,
                            dkArgs.time_1, dkArgs.time_2)
    /\ dkPc' = "ret"
    /\ UNCHANGED dkArgs
    /\ UNCHANGED varsNotKeys

\* The messages, keys and IVs the model hands to aes_encrypt: strings of 0,
\* 1, 15, 16, 17 and 32 ASCII characters, one of 8 two-byte characters (16
\* bytes), and two with a NUL character; keys of 32 and of 16 bytes.
Letters(n) == [i \in 1..n |-> 97 + ((7 * i) % 26)]

AesMessages ==
    {Letters(n) : n \in {0, 1, 15, 16, 17, 32}}
        \cup {[i \in 1..8 |-> 233], <<97, 0, 98>>, <<0>>}

AesKeys == {[i \in 1..32 |-> (37 * i) % 256], [i \in 1..16 |-> 255 - i]}

AesIvs == {[i \in 1..16 |-> 0], [i \in 1..16 |-> (i * 17) % 256]}
             \cup {extract_bits(sha256_hmac(<<75>>, <<97, 98, 49, 50, 50>>), 0, 32)}

AesInit ==
    /\ aesMsg \in AesMessages
    /\ aesKey \in AesKeys
    /\ aesIv \in AesIvs
    /\ aesEnc = Ok(<<>>)
    /\ aesDec = Ok(<<>>)
    /\ aesPc = "call"

AesIdle ==
    /\ aesMsg = <<>>
    /\ aesKey = <<>>
    /\ aesIv = <<>>
    /\ aesEnc = Ok(<<>>)
    /\ aesDec = Ok(<<>>)
    /\ aesPc = "idle"

aes_encrypt_call ==
    /\ aesPc = "call"
    /\ aesEnc' = aes_encrypt(aesMsg, aesKey, aesIv)
    /\ aesPc' = "encrypted"
    /\ UNCHANGED <<aesMsg, aesKey, aesIv, aesDec>>
    /\ UNCHANGED varsNotAes

aes_decrypt_call ==
    /\ aesPc = "encrypted"
    /\ aesEnc.exc = ""
    /\ aesDec' = aes_decrypt(aesEnc.val, aesKey, aesIv)
    /\ aesPc' = "decrypted"
    /\ UNCHANGED <<aesMsg, aesKey, aesIv, aesEnc>>
    /\ UNCHANGED varsNotAes

\* aes_decrypt of a message of the peer: the peer's plaintext fills its blocks
\* exactly, and is encrypted as it is.
aes_decrypt_peer ==
    /\ aesPc = "call"
    /\ aesMsg # <<>>
    /\ Len(aesMsg) % BLOCK_SIZE = 0
    /\ \E enc \in {AES_CBC_encrypt(aesKey, aesIv, aesMsg)} :
           /\ enc.exc = ""
           /\ aesEnc' = Ok(b64encode(enc.val))
           /\ aesDec' = aes_decrypt(b64encode(enc.val), aesKey, aesIv)
    /\ aesPc' = "received"
    /\ UNCHANGED <<aesMsg, aesKey, aesIv>>
    /\ UNCHANGED varsNotAes

\* One LAN session.  Direction "app" is app -> device (the app encrypts with
\* the app key, the device decrypts), direction "dev" is device -> app; each
\* side of a direction hands the IV its last call returned to its next call.
Directions == {"app", "dev"}

CryptoKey(d) == IF d = "app" THEN sessKeys[2] ELSE sessKeys[4]

IvSeed(d) == IF d = "app" THEN sessKeys[3] ELSE sessKeys[5]

\* The payloads of the session: 1 byte (one block), 16 bytes (two blocks), and
\* one with a NUL character.
SessionPayloads == {<<123>>, Letters(16), <<123, 0, 125>>}

SessInit ==
    /\ \E lan_key \in LanKeys, random_2 \in {<<98>>, <<98, 99>>} :
           sessKeys = derive_keys(lan_key, <<97>>, random_2, <<49>>, <<50>>)
    /\ sendIv = [d \in Directions |-> IvSeed(d)]
    /\ recvIv = [d \in Directions |-> IvSeed(d)]
    /\ wire = [d \in Directions |-> <<>>]
    /\ sentLog = [d \in Directions |-> <<>>]
    /\ cipherLog = [d \in Directions |-> <<>>]
    /\ recvLog = [d \in Directions |-> <<>>]

SessIdle ==
    /\ sessKeys = <<>>
    /\ sendIv = <<>>
    /\ recvIv = <<>>
    /\ wire = <<>>
    /\ sentLog = <<>>
    /\ cipherLog = <<>>
    /\ recvLog = <<>>

\* The sender of direction d encrypts a payload with the IV it holds and
\* keeps the IV returned.
session_encrypt(d, payload) ==
    /\ Len(sentLog["app"]) + Len(sentLog["dev"]) < MaxMsgs
    /\ \E r \in {encrypt_payload(payload, CryptoKey(d), sendIv[d])} :
           /\ r.exc = ""
           /\ wire' = [wire EXCEPT ![d] = Append(@, r.val[1])]
           /\ sendIv' = [sendIv EXCEPT ![d] = r.val[2]]
           /\ cipherLog' = [cipherLog EXCEPT ![d] =
                  Append(@, AES_CBC_encrypt(CryptoKey(d), sendIv[d],
                                            pad_zero(str_encode(payload))).val)]
    /\ sentLog' = [sentLog EXCEPT ![d] = Append(@, payload)]
    /\ UNCHANGED <<sessKeys, recvIv, recvLog>>
    /\ UNCHANGED varsNotSess

\* The receiver of direction d decrypts the next enc string with the IV it
\* holds and keeps the IV returned.
session_decrypt(d) ==
    /\ wire[d] # <<>>
    /\ \E r \in {decrypt_payload(Head(wire[d]), CryptoKey(d), recvIv[d])} :
           /\ r.exc = ""
           /\ recvLog' = [recvLog EXCEPT ![d] = Append(@, r.val[1])]
           /\ recvIv' = [recvIv EXCEPT ![d] = r.val[2]]
    /\ wire' = [wire EXCEPT ![d] = Tail(@)]
    /\ UNCHANGED <<sessKeys, sendIv, sentLog, cipherLog>>
    /\ UNCHANGED varsNotSess

(***************************************************************************)
(* core/binary.py                                                          *)
(***************************************************************************)
CRC16_POLY == 4129     \* 0x1021

CRC16_INIT == 7439     \* 0x1D0F

\* Mutant of crc16_shift: the register is shifted before bit 15 is tested.
RECURSIVE crc16_shift_late(_, _)
crc16_shift_late(crc, n) ==
    IF n = 0 THEN crc
    ELSE LET s == PyShl(crc, 1)
         IN  crc16_shift_late(IF PyBit(s, 15) = 1 THEN PyXor(s, PyInt(4129)) ELSE s,
                              n - 1)

\* for _ in range(8): if crc & 0x8000: crc = (crc << 1) ^ POLY else crc <<= 1
RECURSIVE crc16_shift(_, _)
crc16_shift(crc, n) ==
    IF n = 0 THEN crc
    ELSE crc16_shift(IF PyBit(crc, 15) = 1
                     THEN PyXor(PyShl(crc, 1), PyInt(CRC16_POLY))
                     ELSE PyShl(crc, 1),
                     n - 1)

\* The body of the loop over the bytes: crc ^= byte << 8; <the 8 shifts>
crc16_byte(crc, byte) == crc16_shift(PyXor(crc, PyShl(PyInt(byte), 8)), 8)

\* for byte in data[lo..hi]: <body>.  The loop is unrolled by halves, which runs
\* the same steps in the same order; the test on the first half only makes
\* TLC evaluate it before it enters the second half.
RECURSIVE crc16_range(_, _, _, _)
crc16_range(crc, data, lo, hi) ==
    IF lo > hi THEN crc
    ELSE IF lo = hi THEN crc16_byte(crc, data[lo])
    ELSE LET mid   == (lo + hi) \div 2
             first == crc16_range(crc, data, lo, mid)
         IN  IF first = first THEN crc16_range(first, data, mid + 1, hi) ELSE first

\* for byte in data: <body>
crc16_register(crc, data) == crc16_range(crc, data, 1, Len(data))

crc16_ccitt(data) == to_bytes2(PyLow(crc16_register(PyInt(CRC16_INIT), data), 16))

\* The byte sequences handed to crc16_ccitt: every sequence of at most
\* MaxCrcLen bytes over CrcBytes.
CrcBytes == {0, 1, 2, 13, 16, 33, 127, 128, 131, 208, 240, 255}

RECURSIVE SeqsUpTo(_, _)
SeqsUpTo(S, n) ==
    IF n = 0 THEN {<<>>}
    ELSE LET shorter == SeqsUpTo(S, n - 1)
         IN  shorter \cup {Append(s, x) : s \in shorter, x \in S}

CrcInit ==
    /\ crcData \in SeqsUpTo(CrcBytes, MaxCrcLen)
    /\ crcOut = <<>>
    /\ crcPc = "call"

CrcIdle ==
    /\ crcData = <<>>
    /\ crcOut = <<>>
    /\ crcPc = "idle"

crc16_call ==
    /\ crcPc = "call"
    /\ crcOut' = crc16_ccitt(crcData)
    /\ crcPc' = "ret"
    /\ UNCHANGED crcData
    /\ UNCHANGED varsNotCrc

(***************************************************************************)
(* parsing/tlv/decode.py                                                   *)
(***************************************************************************)
TWO_BYTE_PARAMS == {1, 9, 15}     \* 0x01, 0x09, 0x0F

PARAM_ORDER ==
    <<11, 12, 28, 25, 1, 15, 27, 2, 8,
      24, 30, 32, 33, 35, 36, 37, 38, 39, 9>>

\* Mutant of parse_tlv_loop: an earlier occurrence of a tag is kept.
RECURSIVE parse_tlv_loop_keepfirst(_, _, _)
parse_tlv_loop_keepfirst(data, i, params) ==
    IF ~(i < Len(data)) THEN params
    ELSE LET tag == data[i + 1]
             j   == i + 1
             put(v) == IF DictHas(params, tag) THEN params ELSE DictSet(params, tag, v)
         IN  IF tag \in TWO_BYTE_PARAMS
             THEN IF j + 1 < Len(data)
                  THEN parse_tlv_loop_keepfirst(data, j + 2,
                           put(BitOr(data[j + 1] * 256, data[j + 2])))
                  ELSE params
             ELSE IF j < Len(data)
                  THEN parse_tlv_loop_keepfirst(data, j + 1, put(data[j + 1]))
                  ELSE params

\* The while loop of parse_tlv_params from index i (0-based) on.
RECURSIVE parse_tlv_loop(_, _, _)
parse_tlv_loop(data, i, params) ==
    IF ~(i < Len(data)) THEN params
    ELSE LET tag == data[i + 1]
             j   == i + 1
         IN  IF tag \in TWO_BYTE_PARAMS
             THEN IF j + 1 < Len(data)
                  THEN parse_tlv_loop(data, j + 2,
                           DictSet(params, tag, BitOr(data[j + 1] * 256, data[j + 2])))
                  ELSE params
             ELSE IF j < Len(data)
                  THEN parse_tlv_loop(data, j + 1, DictSet(params, tag, data[j + 1]))
                  ELSE params

parse_tlv_params(data) == parse_tlv_loop(data, 0, <<>>)

\* Mutant of tlv_ordered: the tags outside PARAM_ORDER are not sorted.
tlv_ordered_unsorted(params) ==
    SelectSeq(PARAM_ORDER, LAMBDA t : DictHas(params, t))
        \o SelectSeq([i \in 1..Len(params) |-> params[i][1]],
                     LAMBDA t : ~SeqHas(PARAM_ORDER, t))

\* ordered = [t for t in PARAM_ORDER if t in params]
\* ordered += sorted(t for t in params if t not in PARAM_ORDER)
tlv_ordered(params) ==
    SelectSeq(PARAM_ORDER, LAMBDA t : DictHas(params, t))
        \o Sorted({t \in DictKeys(params) : ~SeqHas(PARAM_ORDER, t)})

\* Mutant of tlv_entry: the two value bytes are written low byte first.
tlv_entry_lowfirst(tag, val) ==
    IF tag \in TWO_BYTE_PARAMS
    THEN <<tag, Mask8(val), Mask8(ShiftRight(val, 8))>>
    ELSE <<tag, Mask8(val)>>

\* Mutant of tlv_entry: the value bytes are not masked.
tlv_entry_unmasked(tag, val) ==
    IF tag \in TWO_BYTE_PARAMS
    THEN <<tag, ShiftRight(val, 8), val>>
    ELSE <<tag, val>>

\* What one pass of the for loop hands to buf.extend.
tlv_entry(tag, val) ==
    IF tag \in TWO_BYTE_PARAMS
    THEN <<tag, Mask8(ShiftRight(val, 8)), Mask8(val)>>
    ELSE <<tag, Mask8(val)>>

\* The body of the for loop of encode_tlv_params, on the outcome so far;
\* bytearray.extend raises ValueError on an item outside 0..255 and the
\* exception ends the loop.
encode_tlv_step(params, buf, tag) ==
    LET items == tlv_entry(tag, DictGet(params, tag))
    IN  IF buf.exc # "" THEN buf
        ELSE IF \A i \in 1..Len(items) : IsByte(items[i])
        THEN Ok(buf.val \o items)
        ELSE Raise("ValueError")

\* for tag in ordered[lo..hi]: <body>, unrolled by halves like crc16_range.
RECURSIVE encode_tlv_range(_, _, _, _, _)
encode_tlv_range(ordered, params, buf, lo, hi) ==
    IF lo > hi THEN buf
    ELSE IF lo = hi THEN encode_tlv_step(params, buf, ordered[lo])
    ELSE LET mid   == (lo + hi) \div 2
             first == encode_tlv_range(ordered, params, buf, lo, mid)
         IN  IF first = first
             THEN encode_tlv_range(ordered, params, first, mid + 1, hi)
             ELSE first

encode_tlv_loop(ordered, params, buf) ==
    encode_tlv_range(ordered, params, buf, 1, Len(ordered))

encode_tlv_params(params) == encode_tlv_loop(tlv_ordered(params), params, Ok(<<>>))

\* The tags and values the model draws.  Tags 1 and 9 take 2 bytes; 0 and 255
\* are not in PARAM_ORDER; 11 precedes 1 and 2 in PARAM_ORDER and 9 is its
\* last entry.  The last value of each width does not fit it.
TlvTags == {0, 1, 2, 9, 11, 255}

TlvValues(tag) == IF tag \in TWO_BYTE_PARAMS THEN {7, 65535, 65543} ELSE {7, 255, 263}

\* The bytes the model writes into a received stream.
WireTags == {0, 1, 2, 9}

WireBytes == {0, 1, 2}

WireValues(tag) ==
    IF tag \in TWO_BYTE_PARAMS
    THEN {hi * 256 + lo : hi \in WireBytes, lo \in WireBytes}
    ELSE WireBytes

TlvInit ==
    /\ tlvParams = <<>>
    /\ tlvData = <<>>
    /\ tlvWire = <<>>
    /\ tlvOut = <<>>
    /\ tlvPc \in {"build", "wire"}

TlvIdle ==
    /\ tlvParams = <<>>
    /\ tlvData = <<>>
    /\ tlvWire = <<>>
    /\ tlvOut = <<>>
    /\ tlvPc = "idle"

\* params[tag] = val by the caller that builds the mapping.
tlv_setitem(tag, val) ==
    /\ tlvPc = "build"
    /\ DictHas(tlvParams, tag) \/ Len(tlvParams) < MaxTlvParams
    /\ tlvParams' = DictSet(tlvParams, tag, val)
    /\ UNCHANGED <<tlvData, tlvWire, tlvOut, tlvPc>>
    /\ UNCHANGED varsNotTlv

tlv_encode ==
    /\ tlvPc = "build"
    /\ encode_tlv_params(tlvParams).exc = ""
    /\ tlvData' = encode_tlv_params(tlvParams).val
    /\ tlvPc' = "encoded"
    /\ UNCHANGED <<tlvParams, tlvWire, tlvOut>>
    /\ UNCHANGED varsNotTlv

tlv_decode ==
    /\ tlvPc = "encoded"
    /\ tlvOut' = parse_tlv_params(tlvData)
    /\ tlvPc' = "decoded"
    /\ UNCHANGED <<tlvParams, tlvData, tlvWire>>
    /\ UNCHANGED varsNotTlv

\* A peer writes one complete entry into the stream.
tlv_wire_entry(tag, val) ==
    /\ tlvPc = "wire"
    /\ Len(tlvWire) < MaxTlvEntries
    /\ tlvData' = tlvData \o (IF tag \in TWO_BYTE_PARAMS
                              THEN <<tag, val \div 256, val % 256>>
                              ELSE <<tag, val>>)
    /\ tlvWire' = Append(tlvWire, <<tag, val>>)
    /\ UNCHANGED <<tlvParams, tlvOut, tlvPc>>
    /\ UNCHANGED varsNotTlv

\* The stream is cut inside an entry: a tag with none of its value bytes, or
\* a two-byte tag with one of them.
tlv_wire_cut(tag, some) ==
    /\ tlvPc = "wire"
    /\ Len(some) = 0 \/ (Len(some) = 1 /\ tag \in TWO_BYTE_PARAMS)
    /\ tlvData' = tlvData \o <<tag>> \o some
    /\ tlvPc' = "cut"
    /\ UNCHANGED <<tlvParams, tlvWire, tlvOut>>
    /\ UNCHANGED varsNotTlv

tlv_parse ==
    /\ tlvPc \in {"wire", "cut"}
    /\ tlvOut' = parse_tlv_params(tlvData)
    /\ tlvPc' = IF tlvPc = "cut" THEN "parsedcut" ELSE "parsed"
    /\ UNCHANGED <<tlvParams, tlvData, tlvWire>>
    /\ UNCHANGED varsNotTlv

(***************************************************************************)
(* parsing/commands/builder.py                                             *)
(***************************************************************************)
COMMAND_MARKER == 13     \* 0x0D

BREW_OPCODE_HI == 131    \* 0x83

BREW_OPCODE_LO == 240    \* 0xF0

TRIGGER_START == 1

TRIGGER_STOP == 2

STOP_BEV_ID == 16        \* the default of build_stop_command's bev_id, 0x10

\* Mutant of build_brew_command: the length byte leaves out the CRC.
build_brew_command_nocrclen(bev_id, params, trigger) ==
    LET tlv_bytes == encode_tlv_params(params)
        head      == py_bytes(<<BREW_OPCODE_HI, BREW_OPCODE_LO, bev_id, trigger>>)
    IN  IF tlv_bytes.exc # "" THEN tlv_bytes
        ELSE IF head.exc # "" THEN head
        ELSE LET payload   == head.val \o tlv_bytes.val
                 frame_len == 1 + 1 + Len(payload)
                 prefix    == py_bytes(<<COMMAND_MARKER, frame_len>>)
             IN  IF prefix.exc # "" THEN prefix
                 ELSE LET frame_without_crc == prefix.val \o payload
                          checksum == crc16_ccitt(frame_without_crc)
                      IN  Ok(hex(frame_without_crc \o checksum))

build_brew_command(bev_id, params, trigger) ==
    LET tlv_bytes == encode_tlv_params(params)
        head      == py_bytes(<<BREW_OPCODE_HI, BREW_OPCODE_LO, bev_id, trigger>>)
    IN  IF tlv_bytes.exc # "" THEN tlv_bytes
        ELSE IF head.exc # "" THEN head
        ELSE LET payload   == head.val \o tlv_bytes.val
                 frame_len == 1 + 1 + Len(payload) + 2
                 prefix    == py_bytes(<<COMMAND_MARKER, frame_len>>)
             IN  IF prefix.exc # "" THEN prefix
                 ELSE LET frame_without_crc == prefix.val \o payload
                          checksum == crc16_ccitt(frame_without_crc)
                      IN  Ok(hex(frame_without_crc \o checksum))

\* Mutant of build_stop_command: the start trigger is sent.
build_stop_command_start(bev_id) ==
    build_brew_command(bev_id, <<<<15, 250>>, <<27, 1>>>>, TRIGGER_START)

build_stop_command(bev_id) ==
    build_brew_command(bev_id, <<<<15, 250>>, <<27, 1>>>>, TRIGGER_STOP)

\* The arguments the model draws.
CmdBevIds == {-1, 0, 1, 16, 255, 256}

CmdTriggers == {<<>>, <<0>>, <<1>>, <<2>>, <<255>>, <<256>>, <<-1>>}

\* The dict {0: 0, 1: 1, ..., n - 1: n - 1}.
RangeDict(n) == [i \in 1..n |-> <<i - 1, i - 1>>]

CmdParams ==
    { <<>>,
      <<<<1, 36>>, <<27, 4>>, <<2, 5>>>>,
      <<<<1, 100>>>>,
      <<<<2, 5>>, <<1, 200>>, <<9, 150>>, <<27, 3>>, <<15, 100>>>>,
      <<<<255, 42>>, <<25, 1>>>>,
      <<<<2, 300>>, <<1, 70000>>, <<27, -1>>>>,
      <<<<256, 1>>>>,
      <<<<-1, 0>>, <<1, 36>>>> }

\* Mappings at the limit of the length byte: 122 tags make a frame of 255
\* bytes, 123 tags one of 257.
CmdLargeParams == {RangeDict(122), RangeDict(123)}

CmdInit ==
    /\ cmdOut = Ok(<<>>)
    /\ cmdPc = "call"
    /\ \/ /\ cmdOp = "brew"
          /\ cmdBev \in {<<b>> : b \in CmdBevIds}
          /\ cmdParams \in CmdParams
          /\ cmdTrigger \in CmdTriggers
       \/ /\ cmdOp = "brew"
          /\ cmdBev = <<1>>
          /\ cmdParams \in CmdLargeParams
          /\ cmdTrigger = <<>>
       \/ /\ cmdOp = "stop"
          /\ cmdBev \in {<<>>} \cup {<<b>> : b \in 0..255}
          /\ cmdParams = <<>>
          /\ cmdTrigger = <<>>

CmdIdle ==
    /\ cmdOp = "idle"
    /\ cmdBev = <<>>
    /\ cmdParams = <<>>
    /\ cmdTrigger = <<>>
    /\ cmdOut = Ok(<<>>)
    /\ cmdPc = "idle"

build_brew_call ==
    /\ cmdPc = "call"
    /\ cmdOp = "brew"
    /\ cmdOut' = build_brew_command(cmdBev[1], cmdParams,
                      IF cmdTrigger = <<>> THEN TRIGGER_START ELSE cmdTrigger[1])
    /\ cmdPc' = "ret"
    /\ UNCHANGED <<cmdOp, cmdBev, cmdParams, cmdTrigger>>
    /\ UNCHANGED varsNotCmd

build_stop_call ==
    /\ cmdPc = "call"
    /\ cmdOp = "stop"
    /\ cmdOut' = build_stop_command(IF cmdBev = <<>> THEN STOP_BEV_ID ELSE cmdBev[1])
    /\ cmdPc' = "ret"
    /\ UNCHANGED <<cmdOp, cmdBev, cmdParams, cmdTrigger>>
    /\ UNCHANGED varsNotCmd

(***************************************************************************)
(* parsing/monitor/frame.py, extractors.py, decode.py                      *)
(***************************************************************************)
\* Python values of mixed type (the items of a payload dict): None, a str, a
\* number, a dict.
PyNone == [t |-> "None", v |-> <<>>]

PyStr(str) == [t |-> "str", v |-> str]

PyNum(n) == [t |-> "num", v |-> <<n>>]

PyDict(d) == [t |-> "dict", v |-> d]

\* bool(x)
Truthy(x) ==
    CASE x.t = "None" -> FALSE
      [] x.t = "num"  -> x.v[1] # 0
      [] OTHER        -> x.v # <<>>

\* d.get(key, default) on a Python value d: AttributeError when d is no dict.
py_get(d, key, default) ==
    IF d.t # "dict" THEN Raise("AttributeError")
    ELSE IF DictHas(d.v, key) THEN Ok(DictGet(d.v, key)) ELSE Ok(default)

\* MonitorFrame.from_b64: the frame, or the exception raised.  The stages
\* are the statements of the method in their order, each handed the locals
\* assigned so far.
\* Mutant of from_b64_contents: contents of 13 bytes or more are accepted.
from_b64_contents_atleast(raw_b64, raw, length, data, contents) ==
    IF Len(contents) < 13
    THEN Raise("Monitor contents expected to be 13 bytes for V2 frames")
    ELSE Ok([direction       |-> raw[1],
             request_id      |-> data[1],
             answer_required |-> data[2],
             accessory       |-> contents[1],
             switches        |-> PySlice(contents, 1, 3),
             alarms          |-> PySlice(contents, 3, 5) \o PySlice(contents, 8, 10),
             status          |-> contents[6],
             action          |-> contents[7],
             progress        |-> contents[8],
             timestamp       |-> PySlice(raw, length + 1, length + 5),
             extra           |-> PySlice(raw, length + 5, Len(raw)),
             raw             |-> raw,
             raw_b64         |-> raw_b64])

\* Mutant of from_b64_contents: the alarms are 4 contiguous content bytes.
from_b64_contents_contiguous(raw_b64, raw, length, data, contents) ==
    IF Len(contents) # 13
    THEN Raise("Monitor contents expected to be 13 bytes for V2 frames")
    ELSE Ok([direction       |-> raw[1],
             request_id      |-> data[1],
             answer_required |-> data[2],
             accessory       |-> contents[1],
             switches        |-> PySlice(contents, 1, 3),
             alarms          |-> PySlice(contents, 3, 7),
             status          |-> contents[6],
             action          |-> contents[7],
             progress        |-> contents[8],
             timestamp       |-> PySlice(raw, length + 1, length + 5),
             extra           |-> PySlice(raw, length + 5, Len(raw)),
             raw             |-> raw,
             raw_b64         |-> raw_b64])

from_b64_contents(raw_b64, raw, length, data, contents) ==
    IF Len(contents) # 13
    THEN Raise("Monitor contents expected to be 13 bytes for V2 frames")
    ELSE Ok([direction       |-> raw[1],
             request_id      |-> data[1],
             answer_required |-> data[2],
             accessory       |-> contents[1],
             switches        |-> PySlice(contents, 1, 3),
             alarms          |-> PySlice(contents, 3, 5) \o PySlice(contents, 8, 10),
             status          |-> contents[6],
             action          |-> contents[7],
             progress        |-> contents[8],
             timestamp       |-> PySlice(raw, length + 1, length + 5),
             extra           |-> PySlice(raw, length + 5, Len(raw)),
             raw             |-> raw,
             raw_b64         |-> raw_b64])

from_b64_data(raw_b64, raw, length, data) ==
    IF Len(data) < 2 THEN Raise("Monitor payload too short")
    ELSE from_b64_contents(raw_b64, raw, length, data, PySlice(data, 2, Len(data)))

from_b64_crc(raw_b64, raw, length, crc) ==
    IF crc # crc16_ccitt(PySlice(raw, 0, length - 1)) THEN Raise("CRC check failed")
    ELSE from_b64_data(raw_b64, raw, length, PySlice(raw, 2, length - 1))

from_b64_length(raw_b64, raw, length) ==
    IF length < 4 \/ Len(raw) < length + 1
    THEN Raise("Length byte inconsistent with payload")
    ELSE from_b64_crc(raw_b64, raw, length, PySlice(raw, length - 1, length + 1))

from_b64_raw(raw_b64, decoded) ==
    IF decoded.exc # "" THEN decoded
    ELSE IF Len(decoded.val) < 4
    THEN Raise("Raw data is too short to contain a monitor frame")
    ELSE from_b64_length(raw_b64, decoded.val, decoded.val[2])

from_b64(raw_b64) == from_b64_raw(raw_b64, a2b_base64(raw_b64))

\* extract_fields_from_b64 returns <<parsed, warnings, errors, frame>>; frame
\* is <<>> for None, else a one-element sequence.
extract_raw_length(decoded) ==
    IF decoded.exc = "" THEN << <<"raw_length", Len(decoded.val)>> >> ELSE <<>>

extract_fields(raw_b64, made) ==
    IF made.exc # ""
    THEN << extract_raw_length(a2b_base64(raw_b64)),
            <<>>,
            << <<"parse_failed", made.exc>> >>,
            <<>> >>
    ELSE << << <<"accessory", made.val.accessory>>,
               <<"switches", made.val.switches>>,
               <<"alarms", made.val.alarms>>,
               <<"status", made.val.status>>,
               <<"action", made.val.action>>,
               <<"progress", made.val.progress>>,
               <<"direction", made.val.direction>>,
               <<"request_id", made.val.request_id>>,
               <<"answer_required", made.val.answer_required>>,
               <<"timestamp", IF made.val.timestamp # <<>>
                              THEN hex(made.val.timestamp) ELSE <<>> >>,
               <<"extra", IF made.val.extra # <<>>
                          THEN hex(made.val.extra) ELSE <<>> >> >>,
            <<>>,
            <<>>,
            <<made.val>> >>

extract_fields_from_b64(raw_b64) == extract_fields(raw_b64, from_b64(raw_b64))

\* decode_monitor_b64: any exception of b64decode leaves as a ValueError.
decode_monitor_wrap(decoded) ==
    IF decoded.exc # "" THEN Raise("ValueError") ELSE decoded

decode_monitor_b64(raw_b64) == decode_monitor_wrap(a2b_base64(raw_b64))

\* datetime.fromtimestamp(x): TypeError for an x that is no number.
fromtimestamp(x) == IF x.t # "num" THEN Raise("TypeError") ELSE Ok(x.v[1])

\* build_monitor_snapshot(payload, source, device_id); now is the clock's
\* reading.  The snapshot returned, or the exception that leaves the call.
snapshot_empty(received_at, source, device_id) ==
    IF received_at.exc # "" THEN received_at
    ELSE Ok([raw |-> <<>>, raw_b64 |-> <<>>,
             received_at |-> received_at.val,
             parsed |-> <<>>,
             warnings |-> <<"no monitor_b64 in payload">>,
             errors |-> <<>>,
             source |-> source, device_id |-> device_id,
             frame |-> <<>>])

snapshot_parsed(raw_b64, raw, extracted, received_at, source, device_id) ==
    IF received_at.exc # "" THEN received_at
    ELSE Ok([raw |-> raw, raw_b64 |-> raw_b64,
             received_at |-> received_at.val,
             parsed |-> extracted[1],
             warnings |-> extracted[2],
             errors |-> extracted[3],
             source |-> source, device_id |-> device_id,
             frame |-> extracted[4]])

snapshot_decoded(raw_b64, raw, stamp, source, device_id) ==
    IF raw.exc # "" THEN raw
    ELSE snapshot_parsed(raw_b64, raw.val, extract_fields_from_b64(raw_b64),
                         fromtimestamp(stamp), source, device_id)

snapshot_of(raw_b64, stamp, source, device_id) ==
    IF raw_b64.exc # "" THEN raw_b64
    ELSE IF ~Truthy(raw_b64.val)
    THEN snapshot_empty(fromtimestamp(stamp), source, device_id)
    ELSE IF raw_b64.val.t # "str" THEN Raise("ValueError")
    ELSE snapshot_decoded(raw_b64.val.v, decode_monitor_b64(raw_b64.val.v),
                          stamp, source, device_id)

\* payload.get("monitor", {}).get("data", {}).get("value")
nested_get(d, key, default) ==
    IF d.exc # "" THEN d ELSE py_get(d.val, key, default)

nested_value(payload) ==
    nested_get(nested_get(py_get(payload, "monitor", PyDict(<<>>)),
                          "data", PyDict(<<>>)),
               "value", PyNone)

\* x or y, for the received_at item and the clock
py_or(x, y) == IF Truthy(x) THEN x ELSE y

build_monitor_snapshot(payload, source, device_id, now) ==
    snapshot_of(IF Truthy(py_get(payload, "monitor_b64", PyNone).val)
                THEN py_get(payload, "monitor_b64", PyNone)
                ELSE nested_value(payload),
                py_or(py_get(payload, "received_at", PyNone).val, PyNum(now)),
                source, device_id)

\* The buffers the model hands to the monitor decoder.  MonSealed is a frame
\* whose length byte and CRC agree with its size: direction, length, then the
\* first length - 3 bytes of request_id, answer_required, 13 content bytes
\* and filler, then the CRC.  The buffers are sealed frames of several
\* lengths (18 is the V2 frame), with the CRC intact (at = 0) or damaged in
\* its first or second byte, followed by 0, 1, 4 or 6 more bytes (keep = 0),
\* and sealed frames cut to their first keep - 1 bytes.
MonPatterns ==
    { <<208, 117, 15, 1, 2, 3, 4, 5, 6, 7, 8, 9, 10, 11, 12, 13, 77, 78>>,
      <<13, 0, 1, 128, 255, 64, 32, 16, 129, 0, 7, 6, 99, 98, 97, 96, 55, 54>> }

MonLengths == {3, 4, 5, 6, 17, 18, 19}

MonSealed(pattern, length) ==
    LET prefix == <<pattern[1], length>> \o SubSeq(pattern, 2, length - 2)
    IN  prefix \o crc16_ccitt(prefix)

MonDamaged(frame, at) ==
    IF at = 0 THEN frame
    ELSE [frame EXCEPT ![Len(frame) - 2 + at] = (@ + 1) % 256]

MonTrailers == {<<>>, <<9>>, <<1, 2, 3, 4>>, <<1, 2, 3, 4, 5, 6>>}

MonBuffer(pattern, length, at, trailer, keep) ==
    IF keep = 0 THEN MonDamaged(MonSealed(pattern, length), at) \o trailer
    ELSE SubSeq(MonSealed(pattern, length), 1, Min(keep - 1, length))

\* The text received: the base64 of a buffer (variant 1), the same with a
\* character outside the alphabet in it (2), with its last character lost
\* (3), and with a non-ASCII character after it (4).
MonText(buffer, variant) ==
    LET text == b64encode(buffer)
    IN  CASE variant = 1 -> text
          [] variant = 2 -> <<65>> \o text
          [] variant = 3 -> SubSeq(text, 1, Len(text) - 1)
          [] variant = 4 -> text \o <<66>>

\* The payload dicts handed to build_monitor_snapshot for a text.
MonPayloads(text) ==
    LET nested == PyDict(<< <<"data", PyDict(<< <<"value", PyStr(text)>> >>)>> >>)
    IN  { PyDict(<< <<"monitor_b64", PyStr(text)>> >>),
          PyDict(<< <<"monitor_b64", PyStr(text)>>, <<"received_at", PyNum(5)>> >>),
          PyDict(<< <<"monitor", nested>> >>),
          PyDict(<< <<"monitor_b64", PyNone>>, <<"monitor", nested>>,
                    <<"received_at", PyNum(0)>> >>),
          PyDict(<< <<"received_at", PyNum(5)>> >>),
          PyDict(<< <<"monitor", PyNone>> >>) }

MonInit ==
    /\ \E pattern \in MonPatterns, length \in MonLengths, at \in {0, 1, 2},
          trailer \in MonTrailers, keep \in {0, 1, 4, 19}, variant \in 1..4 :
           monB64 = MonText(MonBuffer(pattern, length, at, trailer, keep), variant)
    /\ monOut = Ok(<<>>)
    /\ monPayload = PyNone
    /\ monSnap = Ok(<<>>)
    /\ monPc = "call"

MonIdle ==
    /\ monB64 = <<>>
    /\ monOut = Ok(<<>>)
    /\ monPayload = PyNone
    /\ monSnap = Ok(<<>>)
    /\ monPc = "idle"

from_b64_call ==
    /\ monPc = "call"
    /\ \E made \in {from_b64(monB64)} : monOut' = made
    /\ monPc' = "frame"
    /\ UNCHANGED <<monB64, monPayload, monSnap>>
    /\ UNCHANGED varsNotMon

build_monitor_snapshot_call(payload, now) ==
    /\ monPc = "call"
    /\ monPayload' = payload
    /\ \E snapshot \in {build_monitor_snapshot(payload, "local", PyNone, now)} :
           monSnap' = snapshot
    /\ monPc' = "snapshot"
    /\ UNCHANGED <<monB64, monOut>>
    /\ UNCHANGED varsNotMon

(***************************************************************************)
(* parsing/tlv/decode.py (named_params), parsing/recipes/decode.py         *)
(***************************************************************************)
PARAM_NAMES ==
    << <<1, "coffee_ml">>, <<2, "temperature">>, <<8, "double_shot">>,
       <<9, "milk_ml">>, <<11, "foam_level">>, <<12, "milk_first">>,
       <<15, "water_ml">>, <<24, "pre_brew">>, <<25, "aroma">>, <<27, "taste">>,
       <<28, "milk_temp">>, <<30, "recipe_type">>, <<32, "my_enabled">>,
       <<33, "my_level">>, <<35, "milk_circuit">>, <<36, "ice_amount">>,
       <<37, "cups_count">>, <<38, "batch_mode">>, <<39, "grinder">> >>

\* PARAM_NAMES.get(tag, f"0x{tag:02x}") for a tag in 0..255: a name is a
\* one-element sequence, a hex string "0x" and two digits.
param_name(tag) ==
    IF DictHas(PARAM_NAMES, tag) THEN <<DictGet(PARAM_NAMES, tag)>>
    ELSE <<"0x", HexDigits[(tag \div 16) + 1], HexDigits[(tag % 16) + 1]>>

named_params(params) ==
    [i \in 1..Len(params) |-> <<param_name(params[i][1]), params[i][2]>>]

\* decode_recipe_b64 returns <<>> for None, else a one-element sequence with
\* the RecipeSnapshot; profile is <<>> for None.  The stages are the
\* statements of the function in their order.
RecipeSnapshot(format, bev_id, profile, params, named, crc_ok, raw_hex) ==
    [format |-> format, bev_id |-> bev_id, profile |-> profile,
     params |-> params, named_params |-> named, crc_ok |-> crc_ok,
     raw_hex |-> raw_hex]

decode_recipe_profile(raw, params, crc_ok) ==
    << RecipeSnapshot("profile", raw[6], <<raw[5]>>, params,
                      named_params(params), crc_ok, hex(raw)) >>

\* Mutant of decode_recipe_cmd: a frame whose CRC does not match is refused.
decode_recipe_cmd_strict(raw, frame_end, crc_bytes, crc_check, cmd) ==
    IF crc_check # crc_bytes THEN <<>>
    ELSE IF cmd = 42736
    THEN decode_recipe_profile(raw, parse_tlv_params(PySlice(raw, 6, frame_end - 2)),
                               crc_check = crc_bytes)
    ELSE IF cmd = 45296
    THEN << RecipeSnapshot("default", raw[5], <<>>, <<>>, <<>>,
                           crc_check = crc_bytes, hex(raw)) >>
    ELSE << RecipeSnapshot("unknown", 0, <<>>, <<>>, <<>>, FALSE, hex(raw)) >>

\* Mutant of decode_recipe_cmd: an unknown command word is refused.
decode_recipe_cmd_known(raw, frame_end, crc_bytes, crc_check, cmd) ==
    IF cmd = 42736
    THEN decode_recipe_profile(raw, parse_tlv_params(PySlice(raw, 6, frame_end - 2)),
                               crc_check = crc_bytes)
    ELSE IF cmd = 45296
    THEN << RecipeSnapshot("default", raw[5], <<>>, <<>>, <<>>,
                           crc_check = crc_bytes, hex(raw)) >>
    ELSE <<>>

\* cmd is 0xA6F0 (42736), 0xB0F0 (45296) or another word.
decode_recipe_cmd(raw, frame_end, crc_bytes, crc_check, cmd) ==
    IF cmd = 42736
    THEN decode_recipe_profile(raw, parse_tlv_params(PySlice(raw, 6, frame_end - 2)),
                               crc_check = crc_bytes)
    ELSE IF cmd = 45296
    THEN << RecipeSnapshot("default", raw[5], <<>>, <<>>, <<>>,
                           crc_check = crc_bytes, hex(raw)) >>
    ELSE << RecipeSnapshot("unknown", 0, <<>>, <<>>, <<>>, FALSE, hex(raw)) >>

\* Mutant of decode_recipe_frame: frame_end = length + 1.
decode_recipe_frame_unclamped(raw, frame_end) ==
    decode_recipe_cmd(raw, raw[2] + 1,
                      PySlice(raw, raw[2] - 1, raw[2] + 1),
                      crc16_ccitt(PySlice(raw, 0, raw[2] - 1)),
                      BitOr(raw[3] * 256, raw[4]))

decode_recipe_frame(raw, frame_end) ==
    decode_recipe_cmd(raw, frame_end,
                      PySlice(raw, frame_end - 2, frame_end),
                      crc16_ccitt(PySlice(raw, 0, frame_end - 2)),
                      BitOr(raw[3] * 256, raw[4]))

\* The marker is 0xD0 (208).
decode_recipe_raw(raw) ==
    IF Len(raw) < 6 THEN <<>>
    ELSE IF raw[1] # 208 THEN <<>>
    ELSE decode_recipe_frame(raw, Min(raw[2] + 1, Len(raw)))

decode_recipe_decoded(decoded) ==
    IF decoded.exc # "" THEN <<>> ELSE decode_recipe_raw(decoded.val)

decode_recipe_b64(b64_str) == decode_recipe_decoded(a2b_base64(b64_str))

\* The frames the model hands to the recipe decoder.  A frame is a marker,
\* a length byte, a head (command word, then profile and beverage ID, or the
\* beverage ID alone), TLV bytes and the CRC of all that.  The length byte is
\* the total length ("total"), one less ("less"), 0 ("zero") or 3 more
\* ("more"); the CRC is intact (at = 0) or damaged in its first or second
\* byte; bytes may follow the frame; the buffer may be cut to its first keep
\* - 1 bytes (keep = 0: not cut); the text is a MonText variant of the buffer.
RecHeads ==
    { <<166, 240, profile, bev_id>> : profile \in {0, 1, 4, 5}, bev_id \in {1, 200} }
        \cup { <<176, 240, 1>>, <<176, 240, 200>> }
        \cup { <<131, 240, 1, 1>>, <<166, 241, 1, 1>> }

RecTlvs ==
    { <<>>, <<1, 0, 36>>, <<1, 0, 36, 27, 4, 2, 5>>, <<27, 4, 1, 0>>, <<2, 5, 77, 1, 2, 6>> }

RecParts ==
    [ marker : {208}, head : RecHeads, tlv : RecTlvs,
      mode : {"total", "less", "zero", "more"}, at : {0, 1, 2},
      trailer : {<<>>, <<9, 9>>}, keep : {0}, variant : {1} ]
        \cup
    [ marker : {208}, head : {<<166, 240, 1, 1>>, <<176, 240, 1>>},
      tlv : {<<>>, <<1, 0, 36>>}, mode : {"total"}, at : {0},
      trailer : {<<>>}, keep : {0, 3, 6}, variant : {1, 2, 3, 4} ]
        \cup
    [ marker : {13}, head : {<<166, 240, 1, 1>>, <<176, 240, 1>>},
      tlv : {<<>>, <<1, 0, 36>>}, mode : {"total"}, at : {0},
      trailer : {<<>>}, keep : {0}, variant : {1} ]

RecLength(parts) ==
    LET total == 2 + Len(parts.head) + Len(parts.tlv) + 2
    IN  CASE parts.mode = "total" -> total
          [] parts.mode = "less"  -> total - 1
          [] parts.mode = "zero"  -> 0
          [] parts.mode = "more"  -> total + 3

RecSealed(parts) ==
    LET prefix == <<parts.marker, RecLength(parts)>> \o parts.head \o parts.tlv
    IN  prefix \o crc16_ccitt(prefix)

RecBuffer(parts) ==
    IF parts.keep = 0 THEN MonDamaged(RecSealed(parts), parts.at) \o parts.trailer
    ELSE SubSeq(RecSealed(parts), 1, parts.keep - 1)

RecText(parts) == MonText(RecBuffer(parts), parts.variant)

RecInit ==
    /\ recParts \in RecParts
    /\ recB64 = RecText(recParts)
    /\ recOut = <<>>
    /\ recPc = "call"

RecIdle ==
    /\ recParts = <<>>
    /\ recB64 = <<>>
    /\ recOut = <<>>
    /\ recPc = "idle"

decode_recipe_call ==
    /\ recPc = "call"
    /\ \E snapshot \in {decode_recipe_b64(recB64)} : recOut' = snapshot
    /\ recPc' = "ret"
    /\ UNCHANGED <<recParts, recB64>>
    /\ UNCHANGED varsNotRec

(***************************************************************************)
(* core/binary.py (get_bit), parsing/monitor/profile.py, view.py           *)
(***************************************************************************)

\* bytes value of Python, beside PyNone, PyStr, PyNum and PyDict.
PyBytes(b) == [t |-> "bytes", v |-> b]

\* data[index] on bytes: a negative index counts from the end, IndexError
\* outside -len .. len - 1.
py_item(data, index) ==
    IF index >= Len(data) \/ index < -Len(data) THEN Raise("IndexError")
    ELSE Ok(data[IF index < 0 THEN Len(data) + index + 1 ELSE index + 1])

\* Mutant of get_bit: the bit index counts from the most significant bit.
get_bit_msb(byte_value, bit_index) ==
    IF bit_index < 0 \/ bit_index > 7 THEN Raise("ValueError")
    ELSE Ok(BitAnd(byte_value, 2 ^ (7 - bit_index)) # 0)

\* if bit_index < 0 or bit_index > 7: raise ValueError
\* return bool(byte_value & (1 << bit_index))
get_bit(byte_value, bit_index) ==
    IF bit_index < 0 \/ bit_index > 7 THEN Raise("ValueError")
    ELSE Ok(BitAnd(byte_value, 2 ^ bit_index) # 0)

\* FlagDefinition(source, byte, bit, invert) and PredicateDefinition(kind,
\* source, value, values, flag, byte, bit).  An Optional field is <<>> for
\* None and a one-element sequence otherwise; value is a Python value and
\* values a list of them.
FlagDefinition(source, byte, bit, invert) ==
    [source |-> source, byte |-> byte, bit |-> bit, invert |-> invert]

PredicateDefinition(kind, source, value, values, flag, byte, bit) ==
    [kind |-> kind, source |-> source, value |-> value, values |-> values,
     flag |-> flag, byte |-> byte, bit |-> bit]

VALID_SOURCES == {"alarms", "switches", "status", "action", "progress", "accessory"}

PredicateKinds ==
    {"equals", "not_equals", "in_set", "not_in_set", "flag_true", "flag_false",
     "bit_set", "bit_clear"}

FlagDefinition_validate(self) ==
    IF self.source \notin {"alarms", "switches"} THEN Raise("ValueError")
    ELSE IF self.byte < 0 THEN Raise("ValueError")
    ELSE IF self.bit < 0 \/ self.bit > 7 THEN Raise("ValueError")
    ELSE Ok(<<>>)

PredicateDefinition_validate(self) ==
    IF self.kind \notin PredicateKinds THEN Raise("ValueError")
    ELSE IF self.source # <<>> /\ self.source[1] \notin VALID_SOURCES
    THEN Raise("ValueError")
    ELSE IF self.bit # <<>> /\ (self.bit[1] < 0 \/ self.bit[1] > 7)
    THEN Raise("ValueError")
    ELSE Ok(<<>>)

uses_flag(self) == self.kind \in {"flag_true", "flag_false"}

uses_bit_address(self) == self.kind \in {"bit_set", "bit_clear"}

\* MonitorProfile.from_dict on a dict whose items carry every field with the
\* type the definition holds (int(), bool() leave them as they are): each
\* definition is validated, and the first ValueError leaves the method.
from_dict(data) ==
    IF \/ \E i \in 1..Len(data.flags) :
              FlagDefinition_validate(data.flags[i][2]).exc # ""
       \/ \E i \in 1..Len(data.predicates) :
              PredicateDefinition_validate(data.predicates[i][2]).exc # ""
    THEN Raise("ValueError")
    ELSE Ok([flags |-> data.flags, predicates |-> data.predicates])

\* MonitorView.__init__: self._frame = snapshot.frame, or the frame decoded
\* from snapshot.raw_b64 when there is none, or None when that raises.
view_parsed(made) == IF made.exc = "" THEN <<made.val>> ELSE <<>>

view_frame(snapshot) ==
    IF snapshot.frame = <<>> /\ snapshot.raw_b64 # <<>>
    THEN view_parsed(from_b64(snapshot.raw_b64))
    ELSE snapshot.frame

\* MonitorView._resolve_flag: None (<<>>), a bool, or the exception of
\* data_bytes[flag_def.byte] or of get_bit, which the method does not trap.
resolve_flag_invert(flag_def, value) ==
    IF value.exc # "" THEN value
    ELSE Ok(<<IF flag_def.invert THEN ~value.val ELSE value.val>>)

resolve_flag_value(flag_def, byte_val) ==
    IF byte_val.exc # "" THEN byte_val
    ELSE resolve_flag_invert(flag_def, get_bit(byte_val.val, flag_def.bit))

resolve_flag_bytes(flag_def, data_bytes) ==
    IF flag_def.byte >= Len(data_bytes) THEN Ok(<<>>)
    ELSE resolve_flag_value(flag_def, py_item(data_bytes, flag_def.byte))

resolve_flag_def(frame, flag_def) ==
    resolve_flag_bytes(flag_def,
        IF flag_def.source = "alarms" THEN frame.alarms ELSE frame.switches)

resolve_flag(frame, flags, flag_name) ==
    IF frame = <<>> THEN Ok(<<>>)
    ELSE IF ~DictHas(flags, flag_name) THEN Ok(<<>>)
    ELSE resolve_flag_def(frame[1], DictGet(flags, flag_name))

\* MonitorView._source_value
source_value(frame, source) ==
    IF frame = <<>> THEN PyNone
    ELSE CASE source = "alarms"    -> PyBytes(frame[1].alarms)
           [] source = "switches"  -> PyBytes(frame[1].switches)
           [] source = "status"    -> PyNum(frame[1].status)
           [] source = "action"    -> PyNum(frame[1].action)
           [] source = "progress"  -> PyNum(frame[1].progress)
           [] source = "accessory" -> PyNum(frame[1].accessory)
           [] OTHER                -> PyNone

\* MonitorView._evaluate_predicate, the body of its try statement: the flag
\* kinds, the bit kinds, the comparisons.
predicate_flag(definition, flag_value) ==
    IF flag_value.exc # "" THEN flag_value
    ELSE IF flag_value.val = <<>> THEN Ok(<<>>)
    ELSE Ok(<<IF definition.kind = "flag_true" THEN flag_value.val[1]
              ELSE ~flag_value.val[1]>>)

predicate_bit_value(definition, bit_value) ==
    IF bit_value.exc # "" THEN bit_value
    ELSE Ok(<<IF definition.kind = "bit_set" THEN bit_value.val ELSE ~bit_value.val>>)

predicate_bit_byte(definition, byte_val) ==
    IF byte_val.exc # "" THEN byte_val
    ELSE predicate_bit_value(definition, get_bit(byte_val.val, definition.bit[1]))

predicate_bit_bytes(definition, source_bytes) ==
    IF \/ definition.byte = <<>>
       \/ definition.byte[1] >= Len(source_bytes)
       \/ definition.bit = <<>>
    THEN Ok(<<>>)
    ELSE predicate_bit_byte(definition, py_item(source_bytes, definition.byte[1]))

predicate_bit(frame, definition) ==
    IF frame = <<>> \/ definition.source = <<>> THEN Ok(<<>>)
    ELSE predicate_bit_bytes(definition,
             IF definition.source[1] = "alarms" THEN frame[1].alarms
             ELSE frame[1].switches)

predicate_values(definition) ==
    IF definition.values = <<>> THEN {}
    ELSE {definition.values[1][i] : i \in 1..Len(definition.values[1])}

predicate_compare(definition, source_val) ==
    CASE definition.kind = "equals"     -> Ok(<<source_val = definition.value>>)
      [] definition.kind = "not_equals" -> Ok(<<source_val # definition.value>>)
      [] definition.kind = "in_set"     ->
             Ok(<<source_val \in predicate_values(definition)>>)
      [] definition.kind = "not_in_set" ->
             Ok(<<source_val \notin predicate_values(definition)>>)
      [] OTHER                          -> Ok(<<>>)

predicate_body(frame, flags, definition) ==
    IF uses_flag(definition)
    THEN predicate_flag(definition,
             resolve_flag(frame, flags,
                 IF definition.flag = <<>> THEN "" ELSE definition.flag[1]))
    ELSE IF uses_bit_address(definition) THEN predicate_bit(frame, definition)
    ELSE predicate_compare(definition,
             IF definition.source = <<>> THEN PyNone
             ELSE source_value(frame, definition.source[1]))

\* except Exception: return None
predicate_except(result) == IF result.exc # "" THEN Ok(<<>>) ELSE result

evaluate_predicate(frame, flags, definition) ==
    predicate_except(predicate_body(frame, flags, definition))

\* MonitorView.__getattr__
getattr(frame, profile, item) ==
    IF DictHas(profile.flags, item) THEN resolve_flag(frame, profile.flags, item)
    ELSE IF DictHas(profile.predicates, item)
    THEN evaluate_predicate(frame, profile.flags, DictGet(profile.predicates, item))
    ELSE Raise("AttributeError")

\* The snapshots a view is built on: without a frame and without a text, with
\* the text of a V2 frame only, with a text that from_b64 refuses, and with a
\* frame already decoded.
ViewTexts ==
    { MonText(MonBuffer(pattern, 18, 0, <<>>, 0), 1) : pattern \in MonPatterns }

ViewSnapshots(text) ==
    { [frame |-> <<>>, raw_b64 |-> <<>>],
      [frame |-> <<>>, raw_b64 |-> text],
      [frame |-> <<>>, raw_b64 |-> SubSeq(text, 1, Len(text) - 1)],
      [frame |-> view_parsed(from_b64(text)), raw_b64 |-> text] }

\* The profiles: one flag "f" and one predicate "p".  The flags take every
\* source, byte and bit below with the flag predicates, and one definition
\* with the others.
ViewFlags ==
    { FlagDefinition(source, byte, bit, invert) :
          source \in {"alarms", "switches"}, byte \in {-5, -1, 0, 1, 3, 4},
          bit \in {-1, 0, 3, 7, 8}, invert \in BOOLEAN }
        \cup { FlagDefinition("status", 0, 0, FALSE) }

ViewFlagPredicates ==
    { PredicateDefinition(kind, <<>>, PyNone, <<>>, <<flag>>, <<>>, <<>>) :
          kind \in {"flag_true", "flag_false"}, flag \in {"f"} }

ViewPredicates ==
    { PredicateDefinition(kind, <<>>, PyNone, <<>>, flag, <<>>, <<>>) :
          kind \in {"flag_true", "flag_false"}, flag \in {<<>>, <<"nf">>} }
        \cup
    { PredicateDefinition(kind, source, PyNone, <<>>, <<>>, byte, bit) :
          kind \in {"bit_set", "bit_clear"},
          source \in {<<>>, <<"alarms">>, <<"switches">>, <<"status">>},
          byte \in {<<>>, <<-5>>, <<-1>>, <<0>>, <<3>>, <<4>>},
          bit \in {<<>>, <<-1>>, <<0>>, <<6>>, <<8>>} }
        \cup
    { PredicateDefinition(kind, source, given[1], given[2], <<>>, <<>>, <<>>) :
          kind \in {"equals", "not_equals", "in_set", "not_in_set", "is_set"},
          source \in {<<>>, <<"alarms">>, <<"status">>, <<"progress">>, <<"level">>},
          given \in { <<PyNone, <<>>>>,
                      <<PyNum(6), << <<PyNum(6), PyNum(7)>> >> >>,
                      <<PyNum(7), << <<PyNone, PyNum(129)>> >> >>,
                      <<PyBytes(<<4, 5, 9, 10>>),
                        << <<PyBytes(<<4, 5, 9, 10>>), PyBytes(<<32, 16>>)>> >> >> } }

ViewConfigs ==
    { [flags |-> << <<"f", flag>> >>, predicates |-> << <<"p", predicate>> >>] :
          flag \in ViewFlags, predicate \in ViewFlagPredicates }
        \cup
    { [flags |-> << <<"f", FlagDefinition("alarms", 0, 2, FALSE)>> >>,
       predicates |-> << <<"p", predicate>> >>] : predicate \in ViewPredicates }

ViewInit ==
    /\ \E text \in ViewTexts : viewSnap \in ViewSnapshots(text)
    /\ \E config \in ViewConfigs, loaded \in {"dict", "object"} :
           viewConfig = [loaded |-> loaded, flags |-> config.flags,
                         predicates |-> config.predicates]
    /\ viewFrame = <<>>
    /\ viewItem = ""
    /\ viewOut = Ok(<<>>)
    /\ viewPc = "new"

ViewIdle ==
    /\ viewSnap = <<>>
    /\ viewConfig = <<>>
    /\ viewFrame = <<>>
    /\ viewItem = ""
    /\ viewOut = Ok(<<>>)
    /\ viewPc = "idle"

\* MonitorView(snapshot, profile): a profile given as a dict goes through
\* MonitorProfile.from_dict, whose ValueError leaves the constructor.
MonitorView_init ==
    /\ viewPc = "new"
    /\ IF viewConfig.loaded = "dict" /\ from_dict(viewConfig).exc # ""
       THEN /\ viewOut' = from_dict(viewConfig)
            /\ viewPc' = "refused"
            /\ UNCHANGED viewFrame
       ELSE /\ \E frame \in {view_frame(viewSnap)} : viewFrame' = frame
            /\ viewPc' = "view"
            /\ UNCHANGED viewOut
    /\ UNCHANGED <<viewSnap, viewConfig, viewItem>>
    /\ UNCHANGED varsNotView

\* view.<item>, for an item that is no attribute of the class.
getattr_call(item) ==
    /\ viewPc = "view"
    /\ viewItem' = item
    /\ \E result \in {getattr(viewFrame, viewConfig, item)} : viewOut' = result
    /\ viewPc' = "done"
    /\ UNCHANGED <<viewSnap, viewConfig, viewFrame>>
    /\ UNCHANGED varsNotView

(***************************************************************************)
(* local_server_app/logging.py (redact)                                    *)
(***************************************************************************)
redacted_keys ==
    {"lan_key", "app_crypto_key", "dev_crypto_key", "app_iv_seed", "dev_iv_seed",
     "enc", "sign"}

\* cleaned[key] = "***" if key in redacted_keys else value
redact_item(key, value) ==
    IF key \in redacted_keys THEN <<key, "***">> ELSE <<key, value>>

\* redact(details): {} for None and for an empty dict.
redact(details) ==
    IF details = <<>> THEN <<>>
    ELSE [i \in 1..Len(details) |-> redact_item(details[i][1], details[i][2])]

\* The details logged: up to two items out of the secrets of a session, the
\* envelope fields and two plain fields; redact is called on two dicts with
\* the same keys.
RedKeys ==
    {"lan_key", "app_sign_key", "app_crypto_key", "app_iv_seed", "dev_crypto_key",
     "dev_iv_seed", "enc", "sign", "seq", "error"}

RedValues == {"k3Zq", "Ab91"}

RedDicts ==
    { <<>> }
        \cup { << <<k, v>> >> : k \in RedKeys, v \in RedValues }
        \cup { << <<ks[1], v1>>, <<ks[2], v2>> >> :
                   ks \in {p \in RedKeys \X RedKeys : p[1] # p[2]},
                   v1 \in RedValues, v2 \in RedValues }

RedInit ==
    /\ \E d1 \in RedDicts, d2 \in RedDicts :
           /\ Len(d1) = Len(d2)
           /\ \A i \in 1..Len(d1) : d1[i][1] = d2[i][1]
           /\ redDetails = <<d1, d2>>
    /\ redOut = <<>>
    /\ redPc = "call"

RedIdle ==
    /\ redDetails = <<>>
    /\ redOut = <<>>
    /\ redPc = "idle"

redact_call ==
    /\ redPc = "call"
    /\ redOut' = <<redact(redDetails[1]), redact(redDetails[2])>>
    /\ redPc' = "ret"
    /\ UNCHANGED redDetails
    /\ UNCHANGED varsNotRed

(***************************************************************************)
(* parsing/properties/decode.py (PropertiesSnapshot.get_profile_names)     *)
(***************************************************************************)
name_block_size == 22

\* A property entry {"property": {"name": ..., "value": ...}}; the name is
\* held as its first four characters and the rest.
PropEntry(name, value) == [t |-> "dict", name |-> name, value |-> value]

\* name.startswith(prefix), for a prefix of four characters.
startswith(name, prefix) == name[1] = prefix

\* PropertiesSnapshot._get_prop_value: the str value of the first entry
\* whose name starts with the prefix and whose value is a str, else None.
get_prop_found(raw, prefix) ==
    {i \in 1..Len(raw) : /\ raw[i][2].t = "dict"
                         /\ startswith(raw[i][2].name, prefix)
                         /\ raw[i][2].value.t = "str"}

get_prop_value(raw, prefix) ==
    IF get_prop_found(raw, prefix) = {} THEN PyNone
    ELSE raw[CHOOSE i \in get_prop_found(raw, prefix) :
                 \A j \in get_prop_found(raw, prefix) : i <= j][2].value

\* PropertiesSnapshot._decode_d0_frame: <<>> for None, else <<opcode,
\* payload>>.
decode_d0_raw(raw) ==
    IF Len(raw) < 6 \/ raw[1] # 208 THEN <<>>
    ELSE <<BitOr(raw[3] * 256, raw[4]),
           PySlice(raw, 4, Min(raw[2] + 1, Len(raw)) - 2)>>

decode_d0_decoded(decoded) ==
    IF decoded.exc # "" THEN <<>> ELSE decode_d0_raw(decoded.val)

decode_d0_frame(b64_str) == decode_d0_decoded(a2b_base64(b64_str))

\* bytes.decode("utf-16-be", errors="replace") as code units, for bytes
\* without surrogates: a trailing odd byte becomes U+FFFD.
utf16_be_decode(data) ==
    [i \in 1..(Len(data) \div 2) |-> data[2 * i - 1] * 256 + data[2 * i]]
        \o (IF Len(data) % 2 = 1 THEN <<65533>> ELSE <<>>)

\* text.split("\x00")[0]
split_nul(text) ==
    IF \E i \in 1..Len(text) : text[i] = 0
    THEN SubSeq(text, 1, (CHOOSE i \in 1..Len(text) :
                              text[i] = 0 /\ \A j \in 1..(i - 1) : text[j] # 0) - 1)
    ELSE text

\* str.isspace() of one character of the Basic Multilingual Plane.
isspace(ch) ==
    \/ ch \in {9, 10, 11, 12, 13, 28, 29, 30, 31, 32, 133, 160, 5760}
    \/ ch \in 8192..8202
    \/ ch \in {8232, 8233, 8239, 8287, 12288}

\* text.strip()
py_strip(text) ==
    IF \A i \in 1..Len(text) : isspace(text[i]) THEN <<>>
    ELSE SubSeq(text,
                CHOOSE i \in 1..Len(text) :
                    ~isspace(text[i]) /\ \A j \in 1..(i - 1) : isspace(text[j]),
                CHOOSE i \in 1..Len(text) :
                    ~isspace(text[i]) /\ \A j \in (i + 1)..Len(text) : isspace(text[j]))

\* text.rstrip("�￿")
py_rstrip_marks(text) ==
    IF \A i \in 1..Len(text) : text[i] \in {65533, 65535} THEN <<>>
    ELSE SubSeq(text, 1,
                CHOOSE i \in 1..Len(text) :
                    /\ text[i] \notin {65533, 65535}
                    /\ \A j \in (i + 1)..Len(text) : text[j] \in {65533, 65535})

\* Mutant of profile_names_prefixes: all four properties are read.
profile_names_prefixes_four == <<"d051", "d052", "d053", "d054">>

\* for prefix in ("d051", "d052")
profile_names_prefixes == <<"d051", "d052">>

\* get_profile_names, the inner loop: for profile_num in range(first_profile,
\* last_profile + 1), with pos and names as they stand.
profile_name_of(name_bytes) ==
    IF Len(name_bytes) < 2 THEN <<>>
    ELSE py_rstrip_marks(py_strip(split_nul(utf16_be_decode(name_bytes))))

profile_names_put(names, profile_num, name) ==
    IF name # <<>> THEN DictSet(names, profile_num, name) ELSE names

profile_names_pos(payload, first_profile, profile_num, pos) ==
    IF profile_num > first_profile /\ pos < Len(payload) /\ payload[pos + 1] = 11
    THEN pos + 2 ELSE pos

RECURSIVE profile_names_blocks(_, _, _, _, _, _)
profile_names_block(payload, first_profile, profile_num, last_profile, pos, names) ==
    profile_names_blocks(payload, first_profile, profile_num + 1, last_profile,
        Min(pos + name_block_size, Len(payload)),
        profile_names_put(names, profile_num,
            profile_name_of(PySlice(payload, pos,
                                    Min(pos + name_block_size, Len(payload))))))

profile_names_blocks(payload, first_profile, profile_num, last_profile, pos, names) ==
    IF profile_num > last_profile THEN names
    ELSE profile_names_block(payload, first_profile, profile_num, last_profile,
             profile_names_pos(payload, first_profile, profile_num, pos), names)

\* get_profile_names, the body of the outer loop for one prefix.
profile_names_frame(result, names) ==
    IF result = <<>> THEN names
    ELSE IF result[1] # 42224 \/ Len(result[2]) < 4 THEN names
    ELSE profile_names_blocks(result[2], result[2][1], result[2][1], result[2][2],
                              2, names)

profile_names_value(b64, names) ==
    IF ~Truthy(b64) THEN names ELSE profile_names_frame(decode_d0_frame(b64.v), names)

RECURSIVE profile_names_from(_, _, _)
profile_names_from(raw, k, names) ==
    IF k > Len(profile_names_prefixes) THEN names
    ELSE profile_names_from(raw, k + 1,
             profile_names_value(get_prop_value(raw, profile_names_prefixes[k]), names))

get_profile_names(raw) == profile_names_from(raw, 1, <<>>)

\* The property values of the model: profile names as plain text (Bartek,
\* Anita, Alice, Explorer 3, Explorer 4, in the characters of a base64 text,
\* 65 being the space), 0xA4F0 frames that hold the names of profiles first
\* .. first + n - 1 in blocks of 11 UTF-16BE characters, a frame of another
\* opcode, a value that is no str, and the text "0Explore", which decodes to
\* 6 bytes that start with 0xD0.
PropTexts ==
    [d051 |-> {<<1, 26, 43, 45, 30, 36>>, <<0, 37, 34, 28, 30>>},
     d052 |-> {<<0, 39, 34, 45, 26>>},
     d053 |-> {<<4, 49, 41, 37, 40, 43, 30, 43, 65, 55>>},
     d054 |-> {<<4, 49, 41, 37, 40, 43, 30, 43, 65, 56>>}]

PropNameBlock(name) ==
    [i \in 1..name_block_size |->
        IF i % 2 = 0 /\ i \div 2 <= Len(name) THEN name[i \div 2] ELSE 0]

RECURSIVE PropBlocks(_, _, _)
PropBlocks(first, names, k) ==
    IF k > Len(names) THEN <<>>
    ELSE (IF k > 1 THEN <<11, first + k - 1>> ELSE <<>>)
             \o PropNameBlock(names[k]) \o PropBlocks(first, names, k + 1)

PropFrame(opcode, first, names) ==
    LET payload == <<first, first + Len(names) - 1>> \o PropBlocks(first, names, 1)
        prefix  == <<208, 6 + Len(payload), opcode \div 256, opcode % 256>> \o payload
    IN  b64encode(prefix \o crc16_ccitt(prefix))

PropNames == << <<66, 97, 114, 116, 101, 107>>, <<65, 110, 105, 116, 97>>,
                <<32, 74, 111, 32>> >>

PropValues(prefix) ==
    {PyStr(text) : text \in PropTexts[prefix]}
        \cup (IF prefix = "d051"
              THEN {PyStr(PropFrame(42224, 1, PropNames)),
                    PyStr(PropFrame(42224, 1, SubSeq(PropNames, 1, 1))),
                    PyStr(PropFrame(42736, 1, PropNames)),
                    PyStr(<<52, 4, 49, 41, 37, 40, 43, 30>>), PyNum(7)}
              ELSE IF prefix = "d052"
              THEN {PyStr(PropFrame(42224, 4, SubSeq(PropNames, 2, 2))),
                    PyStr(PropFrame(42224, 3, SubSeq(PropNames, 2, 3))),
                    PyStr(<<>>)}
              ELSE {})

PropChoices(prefix) ==
    {<<>>} \cup { << <<prefix, PropEntry(<<prefix, rest>>, value)>> >> :
                     rest \in {"", "_profile"}, value \in PropValues(prefix) }

PropInit ==
    /\ \E p1 \in PropChoices("d051"), p2 \in PropChoices("d052"),
          p3 \in PropChoices("d053"), p4 \in PropChoices("d054"),
          other \in {<<>>, << <<"p0", PyNum(0)>> >>} :
           propRaw = other \o p4 \o p1 \o p2 \o p3
    /\ propOut = <<>>
    /\ propPc = "call"

PropIdle ==
    /\ propRaw = <<>>
    /\ propOut = <<>>
    /\ propPc = "idle"

get_profile_names_call ==
    /\ propPc = "call"
    /\ \E names \in {get_profile_names(propRaw)} : propOut' = names
    /\ propPc' = "ret"
    /\ UNCHANGED propRaw
    /\ UNCHANGED varsNotProp

(***************************************************************************)
(* transports/local/transport.py (LocalTransport)                          *)
(***************************************************************************)
\* What a method leaves behind: the transport, the POSTs it sent (path and
\* answer: <<status code>>, or <<>> when requests raised RequestException) and
\* the exception it raised.
Sent(self, posts, exc) == [self |-> self, posts |-> posts, exc |-> exc]

\* Mutant of configure: any answer of the server configures the transport.
configure_any(self, resp) ==
    IF resp = <<>>
    THEN Sent(self, << <<"/configure", resp>> >>, "ConnectionError")
    ELSE Sent([self EXCEPT !.configured = TRUE], << <<"/configure", resp>> >>, "")

\* LocalTransport.configure
configure(self, resp) ==
    IF resp = <<>>
    THEN Sent(self, << <<"/configure", resp>> >>, "ConnectionError")
    ELSE IF resp[1] \notin {200, 201}
    THEN Sent(self, << <<"/configure", resp>> >>, "ValueError")
    ELSE Sent([self EXCEPT !.configured = TRUE], << <<"/configure", resp>> >>, "")

\* LocalTransport.send_command, from the POST of the command on.
send_command_post(self, posts, resp) ==
    Sent(self, Append(posts, <<"/command", resp>>),
         IF resp = <<>> THEN "RequestException"
         ELSE IF resp[1] \notin {200, 201} THEN "ValueError" ELSE "")

send_command_configured(configured, resp) ==
    IF configured.exc # "" THEN configured
    ELSE send_command_post(configured.self, configured.posts, resp)

\* Mutant of send_command: the command is posted without configuring.
send_command_directly(self, conf, resp) == send_command_post(self, <<>>, resp)

\* LocalTransport.send_command
send_command(self, conf, resp) ==
    IF ~self.configured THEN send_command_configured(configure(self, conf), resp)
    ELSE send_command_post(self, <<>>, resp)

\* LocalTransport.set_mappings
set_mappings_updated(self, previous_monitor, conf) ==
    IF self.auto /\ (~self.configured \/ previous_monitor # self.monitor)
    THEN configure(self, conf)
    ELSE Sent(self, <<>>, "")

set_mappings(self, monitor, conf) ==
    set_mappings_updated([self EXCEPT !.monitor = monitor], self.monitor, conf)

\* LocalTransport.__init__
LocalTransport_new(auto_configure, conf) ==
    IF auto_configure
    THEN configure([configured |-> FALSE, auto |-> TRUE, monitor |-> "d302_monitor"],
                   conf)
    ELSE Sent([configured |-> FALSE, auto |-> FALSE, monitor |-> "d302_monitor"],
              <<>>, "")

\* The answers of the local server and the monitor property names mapped.
LtAnswers == {<<200>>, <<201>>, <<500>>, <<>>}

LtMonitors == {"d302_monitor", "d303_monitor"}

LtInit ==
    /\ ltSelf = <<>>
    /\ ltPosts = <<>>
    /\ ltCall = ""
    /\ ltOut = ""
    /\ ltPc = "new"

LtIdle ==
    /\ ltSelf = <<>>
    /\ ltPosts = <<>>
    /\ ltCall = ""
    /\ ltOut = ""
    /\ ltPc = "idle"

\* A call has returned or raised: its posts are sent, the transport is as the
\* call left it.
LtDone(call, sent) ==
    /\ ltSelf' = sent.self
    /\ ltPosts' = ltPosts \o sent.posts
    /\ ltCall' = call
    /\ ltOut' = sent.exc
    /\ UNCHANGED varsNotLt

\* LocalTransport(...): the constructor that raises leaves no transport.
LocalTransport_init(auto_configure, conf) ==
    /\ ltPc = "new"
    /\ \E sent \in {LocalTransport_new(auto_configure, conf)} :
           /\ ltPc' = IF sent.exc = "" THEN "ready" ELSE "failed"
           /\ LtDone("__init__", sent)

configure_call(conf) ==
    /\ ltPc = "ready"
    /\ Len(ltPosts) < MaxPosts
    /\ UNCHANGED ltPc
    /\ LtDone("configure", configure(ltSelf, conf))

send_command_call(conf, resp) ==
    /\ ltPc = "ready"
    /\ Len(ltPosts) < MaxPosts
    /\ UNCHANGED ltPc
    /\ LtDone("send_command", send_command(ltSelf, conf, resp))

set_mappings_call(monitor, conf) ==
    /\ ltPc = "ready"
    /\ Len(ltPosts) < MaxPosts
    /\ UNCHANGED ltPc
    /\ LtDone("set_mappings", set_mappings(ltSelf, monitor, conf))

(***************************************************************************)
(* local_server_app/jobs.py, local_server_app/device_adapter.py            *)
(***************************************************************************)
\* A coroutine is suspended at pc ("start": created, not yet run). task is
\* the state of its asyncio task: "pending", "cancelling" (cancel() was
\* called on it), or how it ended: "returned", "cancelled", "raised".
Jobs == {"nudger_job", "monitor_job", "rekey_job"}

Resumed(co, st) == [co |-> co, st |-> st]

\* while not stop_event.is_set(): the next await of the body, or the return.
while_not_stopped(co, stop_event, body) ==
    IF stop_event
    THEN [co EXCEPT !.pc = "done", !.task = "returned", !.seen = TRUE]
    ELSE [co EXCEPT !.pc = body]

\* DeviceAdapter.register_with_device. outcome: "skipped" (registration
\* disabled), "no_ip", "http_error" or "ok".
register_with_device(st, outcome) ==
    CASE outcome = "skipped" -> [st |-> st, exc |-> ""]
      [] outcome = "no_ip" -> [st |-> st, exc |-> "ValueError"]
      [] outcome = "http_error" ->
             [st |-> [st EXCEPT !.registered = FALSE], exc |-> "ConnectionError"]
      [] OTHER -> [st |-> [st EXCEPT !.registered = TRUE], exc |-> ""]

\* nudger_job, resumed: from the await it is suspended at to the next one.
\* outcome is how the awaited call ended ("raised" for st.rekey()).
nudger_job_registered(co, registered, stop_event) ==
    IF registered.exc # ""
    THEN Resumed([co EXCEPT !.pc = "rekey",
                            !.did = Append(@, "local_reg_nudge_failed")],
                 registered.st)
    ELSE Resumed([co EXCEPT !.pc = "wait"], registered.st)

nudger_job(co, st, stop_event, outcome) ==
    CASE co.pc = "start" -> Resumed(while_not_stopped(co, stop_event, "lock"), st)
      [] co.pc = "lock" ->
             IF st.command_queue > 0 \/ ~st.registered
             THEN Resumed([co EXCEPT !.pc = "register"], st)
             ELSE Resumed([co EXCEPT !.pc = "wait"], st)
      [] co.pc = "register" ->
             nudger_job_registered(co, register_with_device(st, outcome), stop_event)
      [] co.pc = "rekey" ->
             IF outcome = "raised"
             THEN Resumed([co EXCEPT !.pc = "done", !.task = "raised"], st)
             ELSE Resumed([co EXCEPT !.pc = "wait"], st)
      [] co.pc = "wait" ->
             Resumed(while_not_stopped([co EXCEPT !.seen = TRUE], stop_event, "lock"),
                     st)
      [] OTHER ->
             Resumed(while_not_stopped([co EXCEPT !.did = <<>>], stop_event, "lock"),
                     st)

\* monitor_job, resumed.
monitor_job(co, st, stop_event, outcome) ==
    CASE co.pc = "start" -> Resumed(while_not_stopped(co, stop_event, "lock"), st)
      [] co.pc = "lock" ->
             IF st.configured /\ ~st.monitor_request_pending
             THEN Resumed([co EXCEPT !.pc = "queue_monitor"], st)
             ELSE Resumed([co EXCEPT !.pc = "wait"], st)
      [] co.pc = "queue_monitor" ->
             IF outcome = "raised"
             THEN Resumed([co EXCEPT !.pc = "wait",
                                     !.did = Append(@, "monitor_poll_failed")], st)
             ELSE Resumed([co EXCEPT !.pc = "wait"], st)
      [] co.pc = "wait" ->
             Resumed(while_not_stopped([co EXCEPT !.seen = TRUE], stop_event, "lock"),
                     st)
      [] OTHER ->
             Resumed(while_not_stopped([co EXCEPT !.did = <<>>], stop_event, "lock"),
                     st)

\* rekey_job, resumed.
rekey_job_registered(co, registered, stop_event) ==
    Resumed(while_not_stopped(
                [co EXCEPT !.did = Append(@, IF registered.exc # ""
                                             THEN "rekey_failed"
                                             ELSE "rekey_triggered")],
                stop_event, "wait"),
            registered.st)

\* Mutant of rekey_job: the wait that returns does not leave the loop.
rekey_job_no_break(co, st, stop_event, outcome) ==
    CASE co.pc = "start" -> Resumed(while_not_stopped(co, stop_event, "wait"), st)
      [] co.pc \in {"wait", "timeout"} ->
             Resumed([co EXCEPT !.pc = "rekey", !.did = <<>>,
                                !.seen = (co.pc = "wait")], st)
      [] co.pc = "rekey" ->
             IF outcome = "raised"
             THEN Resumed(while_not_stopped(
                              [co EXCEPT !.did = Append(@, "rekey_failed")],
                              stop_event, "wait"), st)
             ELSE Resumed([co EXCEPT !.pc = "register"], st)
      [] OTHER ->
             rekey_job_registered(co, register_with_device(st, outcome), stop_event)

\* Mutant of rekey_job: the registration does not depend on the rekey.
rekey_job_unguarded(co, st, stop_event, outcome) ==
    CASE co.pc = "start" -> Resumed(while_not_stopped(co, stop_event, "wait"), st)
      [] co.pc = "wait" ->
             Resumed([co EXCEPT !.pc = "done", !.task = "returned", !.seen = TRUE], st)
      [] co.pc = "timeout" ->
             Resumed([co EXCEPT !.pc = "rekey", !.did = <<>>], st)
      [] co.pc = "rekey" ->
             Resumed([co EXCEPT !.pc = "register",
                                !.did = IF outcome = "raised"
                                        THEN Append(@, "rekey_failed") ELSE @], st)
      [] OTHER ->
             rekey_job_registered(co, register_with_device(st, outcome), stop_event)

rekey_job(co, st, stop_event, outcome) ==
    CASE co.pc = "start" -> Resumed(while_not_stopped(co, stop_event, "wait"), st)
      [] co.pc = "wait" ->
             Resumed([co EXCEPT !.pc = "done", !.task = "returned", !.seen = TRUE], st)
      [] co.pc = "timeout" ->
             Resumed([co EXCEPT !.pc = "rekey", !.did = <<>>], st)
      [] co.pc = "rekey" ->
             IF outcome = "raised"
             THEN Resumed(while_not_stopped(
                              [co EXCEPT !.did = Append(@, "rekey_failed")],
                              stop_event, "wait"), st)
             ELSE Resumed([co EXCEPT !.pc = "register"], st)
      [] OTHER ->
             rekey_job_registered(co, register_with_device(st, outcome), stop_event)

\* How the call a coroutine awaits may end.
JobOutcomes(pc) ==
    CASE pc = "register" -> {"skipped", "no_ip", "http_error", "ok"}
      [] pc \in {"rekey", "queue_monitor"} -> {"returned", "raised"}
      [] OTHER -> {"returned"}

\* JobManager.stop: the awaits from task i on. A task that is done is
\* awaited without suspending.
RECURSIVE JobManager_stop_await(_, _, _)
JobManager_stop_await(mgr, co, i) ==
    IF i > Len(mgr.tasks) THEN [mgr EXCEPT !.tasks = <<>>, !.pc = "returned", !.i = i]
    ELSE IF co[mgr.tasks[i]].task \in {"pending", "cancelling"}
    THEN [mgr EXCEPT !.pc = "await", !.i = i]
    ELSE IF co[mgr.tasks[i]].task = "raised"
    THEN [mgr EXCEPT !.pc = "raised", !.i = i]
    ELSE JobManager_stop_await(mgr, co, i + 1)

\* task.cancel() for every task of the list.
JobManager_stop_cancel(mgr, co) ==
    [j \in Jobs |->
        IF (\E i \in 1..Len(mgr.tasks) : mgr.tasks[i] = j) /\ co[j].task = "pending"
        THEN [co[j] EXCEPT !.task = "cancelling"] ELSE co[j]]

\* The server state the jobs start on: no command queued, the device not
\* registered, no monitor request pending.
JobStates ==
    [command_queue : {0}, registered : {FALSE}, configured : BOOLEAN,
     monitor_request_pending : {FALSE}]

JobInit ==
    /\ jobCo = [j \in Jobs |-> [pc |-> "none", task |-> "none", did |-> <<>>,
                                seen |-> FALSE]]
    /\ jobSt \in JobStates
    /\ jobStop = FALSE
    /\ jobMgr = [tasks |-> <<>>, pc |-> "idle", i |-> 0]
    /\ jobTimeouts = 0

JobIdle ==
    /\ jobCo = <<>>
    /\ jobSt = <<>>
    /\ jobStop = FALSE
    /\ jobMgr = <<>>
    /\ jobTimeouts = 0

\* JobManager.start(coro, name)
JobManager_start(j) ==
    /\ jobMgr.pc = "idle"
    /\ jobCo[j].task = "none"
    /\ jobMgr' = [jobMgr EXCEPT !.tasks = Append(@, j)]
    /\ jobCo' = [jobCo EXCEPT ![j] = [@ EXCEPT !.pc = "start", !.task = "pending"]]
    /\ UNCHANGED <<jobSt, jobStop, jobTimeouts>>
    /\ UNCHANGED varsNotJob

\* JobManager.stop(), up to its first suspension.
JobManager_stop ==
    /\ jobMgr.pc = "idle"
    /\ \E co \in {JobManager_stop_cancel(jobMgr, jobCo)} :
           /\ jobCo' = co
           /\ jobMgr' = JobManager_stop_await(jobMgr, co, 1)
    /\ UNCHANGED <<jobSt, jobStop, jobTimeouts>>
    /\ UNCHANGED varsNotJob

\* JobManager.stop(), resumed when the task it awaits is done.
JobManager_stop_resumed ==
    /\ jobMgr.pc = "await"
    /\ jobCo[jobMgr.tasks[jobMgr.i]].task \notin {"pending", "cancelling"}
    /\ jobMgr' = JobManager_stop_await(jobMgr, jobCo, jobMgr.i)
    /\ UNCHANGED <<jobCo, jobSt, jobStop, jobTimeouts>>
    /\ UNCHANGED varsNotJob

\* stop_event.set(), by the owner of the jobs.
stop_event_set ==
    /\ ~jobStop
    /\ jobStop' = TRUE
    /\ UNCHANGED <<jobCo, jobSt, jobMgr, jobTimeouts>>
    /\ UNCHANGED varsNotJob

\* The server state changes under the jobs: a command is queued or taken.
state_changes(queued) ==
    /\ queued # jobSt.command_queue
    /\ jobSt' = [jobSt EXCEPT !.command_queue = queued]
    /\ UNCHANGED <<jobCo, jobStop, jobMgr, jobTimeouts>>
    /\ UNCHANGED varsNotJob

\* asyncio.wait_for(stop_event.wait(), timeout=interval): the interval has
\* elapsed and the event is not set.
wait_for_timeout(j) ==
    /\ jobCo[j].pc = "wait"
    /\ jobCo[j].task \in {"pending", "cancelling"}
    /\ ~jobStop
    /\ jobTimeouts < MaxTimeouts
    /\ jobTimeouts' = jobTimeouts + 1
    /\ jobCo' = [jobCo EXCEPT ![j] = [@ EXCEPT !.pc = "timeout"]]
    /\ UNCHANGED <<jobSt, jobStop, jobMgr>>
    /\ UNCHANGED varsNotJob

\* The task of a job runs: its coroutine goes on to its next await or ends.
job_body(j, co, st, stop_event, outcome) ==
    CASE j = "nudger_job" -> nudger_job(co, st, stop_event, outcome)
      [] j = "monitor_job" -> monitor_job(co, st, stop_event, outcome)
      [] OTHER -> rekey_job(co, st, stop_event, outcome)

task_step(j) ==
    /\ jobCo[j].task = "pending"
    /\ jobCo[j].pc # "wait" \/ jobStop
    /\ \E outcome \in JobOutcomes(jobCo[j].pc) :
       \E r \in {job_body(j, jobCo[j], jobSt, jobStop, outcome)} :
           /\ jobCo' = [jobCo EXCEPT ![j] = r.co]
           /\ jobSt' = r.st
    /\ UNCHANGED <<jobStop, jobMgr, jobTimeouts>>
    /\ UNCHANGED varsNotJob

\* The task of a job runs after cancel(): CancelledError is thrown into the
\* await, no handler of the jobs catches it, the task ends cancelled.
task_cancelled(j) ==
    /\ jobCo[j].task = "cancelling"
    /\ jobCo' = [jobCo EXCEPT ![j] = [@ EXCEPT !.pc = "done", !.task = "cancelled",
                                               !.did = <<>>]]
    /\ UNCHANGED <<jobSt, jobStop, jobMgr, jobTimeouts>>
    /\ UNCHANGED varsNotJob

(***************************************************************************)
(* The local session state that serializes the operations of each          *)
(* direction and installs the keys of a rekey.                             *)
(***************************************************************************)
\* The operations that run concurrently on the session, and the callers of
\* rekey().
LocOps == {"op1", "op2"}

LocCallers == {"nudger_job", "rekey_job"}

\* What an operation works on: on "app" a payload to encrypt (of one and of
\* two blocks), on "dev" an enc string of two blocks to decrypt.
LocArgs(d) == IF d = "app" THEN {<<123>>, Letters(16)} ELSE {b64encode(Letters(32))}

LocKey(keys, d) == IF d = "app" THEN keys[2] ELSE keys[4]

LocSeed(keys, d) == IF d = "app" THEN keys[3] ELSE keys[5]

\* The cryptographic call of an operation: encrypt_payload on "app",
\* decrypt_payload on "dev". Returns <<enc, new_iv>>.
session_crypto(op) ==
    IF op.d = "app"
    THEN encrypt_payload(op.arg, LocKey(op.keys, "app"), op.iv)
    ELSE LET r == decrypt_payload(op.arg, LocKey(op.keys, "dev"), op.iv)
         IN  IF r.exc # "" THEN r ELSE Ok(<<op.arg, r.val[2]>>)

\* Mutant of rekey_installed: the device's secrets are written later than the
\* app's.
rekey_installed_partly(old, new) == <<new[1], new[2], new[3], old[4], old[5]>>

\* The key set after a rekey: the new one, whole.
rekey_installed(old, new) == new

LocInit ==
    /\ locKeys = derive_keys(<<107, 49>>, <<97>>, <<98>>, <<49>>, <<50>>)
    /\ locIv = [d \in Directions |-> LocSeed(locKeys, d)]
    /\ locLock = [d \in Directions |-> ""]
    /\ locOps = [o \in LocOps |-> [pc |-> "idle", d |-> "", arg |-> <<>>,
                                   keys |-> <<>>, iv |-> <<>>]]
    /\ locRekeys = [c \in LocCallers |-> <<>>]
    /\ locExchanges = <<locKeys>>
    /\ locLog = [d \in Directions |-> <<>>]

LocIdle ==
    /\ locKeys = <<>>
    /\ locIv = <<>>
    /\ locLock = <<>>
    /\ locOps = <<>>
    /\ locRekeys = <<>>
    /\ locExchanges = <<>>
    /\ locLog = <<>>

\* An operation starts on direction d: it waits until none is in flight on
\* d, then reads the keys and the IV of d.
session_op_begin(o, d, arg) ==
    /\ locOps[o].pc = "idle"
    /\ locLock[d] = ""
    /\ locLock' = [locLock EXCEPT ![d] = o]
    /\ locOps' = [locOps EXCEPT ![o] = [pc |-> "crypto", d |-> d, arg |-> arg,
                                        keys |-> locKeys, iv |-> locIv[d]]]
    /\ UNCHANGED <<locKeys, locIv, locRekeys, locExchanges, locLog>>
    /\ UNCHANGED varsNotLoc

\* The operation ends: the IV returned becomes the IV of its direction.
session_op_end(o) ==
    /\ locOps[o].pc = "crypto"
    /\ \E r \in {session_crypto(locOps[o])} :
           /\ r.exc = ""
           /\ locIv' = [locIv EXCEPT ![locOps[o].d] = r.val[2]]
           /\ locLog' = [locLog EXCEPT ![locOps[o].d] =
                             Append(@, <<locOps[o].iv, r.val[1]>>)]
    /\ locLock' = [locLock EXCEPT ![locOps[o].d] = ""]
    /\ locOps' = [locOps EXCEPT ![o] = [@ EXCEPT !.pc = "done"]]
    /\ UNCHANGED <<locKeys, locRekeys, locExchanges>>
    /\ UNCHANGED varsNotLoc

\* rekey(), called by a job: a key exchange, from which the keys are derived.
rekey_exchange(c, random_1, random_2) ==
    /\ locRekeys[c] = <<>>
    /\ Len(locExchanges) <= MaxRekeys
    /\ \E keys \in {derive_keys(<<107, 49>>, random_1, random_2, <<49>>, <<50>>)} :
           /\ locRekeys' = [locRekeys EXCEPT ![c] = keys]
           /\ locExchanges' = Append(locExchanges, keys)
    /\ UNCHANGED <<locKeys, locIv, locLock, locOps, locLog>>
    /\ UNCHANGED varsNotLoc

\* rekey() installs the keys it derived, with no operation in flight; the
\* IV chains start again from the new seeds.
rekey_install(c) ==
    /\ locRekeys[c] # <<>>
    /\ \A d \in Directions : locLock[d] = ""
    /\ \E keys \in {rekey_installed(locKeys, locRekeys[c])} :
           /\ locKeys' = keys
           /\ locIv' = [d \in Directions |-> LocSeed(keys, d)]
    /\ locRekeys' = [locRekeys EXCEPT ![c] = <<>>]
    /\ locLog' = [d \in Directions |-> <<>>]
    /\ UNCHANGED <<locLock, locOps, locExchanges>>
    /\ UNCHANGED varsNotLoc

(***************************************************************************)
(* Specifications.                                                         *)
(***************************************************************************)
InitCrc == CrcInit /\ TlvIdle /\ CmdIdle /\ KeysIdle /\ AesIdle /\ SessIdle
    /\ MonIdle /\ RecIdle /\ ViewIdle /\ RedIdle /\ PropIdle /\ LtIdle
    /\ JobIdle /\ LocIdle

NextCrc == crc16_call

SpecCrc == InitCrc /\ [][NextCrc]_vars

InitTlv == TlvInit /\ CrcIdle /\ CmdIdle /\ KeysIdle /\ AesIdle /\ SessIdle
    /\ MonIdle /\ RecIdle /\ ViewIdle /\ RedIdle /\ PropIdle /\ LtIdle
    /\ JobIdle /\ LocIdle

NextTlv ==
    \/ \E tag \in TlvTags : \E val \in TlvValues(tag) : tlv_setitem(tag, val)
    \/ tlv_encode
    \/ tlv_decode
    \/ \E tag \in WireTags : \E val \in WireValues(tag) : tlv_wire_entry(tag, val)
    \/ \E tag \in WireTags : \E some \in SeqsUpTo(WireBytes, 1) : tlv_wire_cut(tag, some)
    \/ tlv_parse

SpecTlv == InitTlv /\ [][NextTlv]_vars

InitCmd == CmdInit /\ CrcIdle /\ TlvIdle /\ KeysIdle /\ AesIdle /\ SessIdle
    /\ MonIdle /\ RecIdle /\ ViewIdle /\ RedIdle /\ PropIdle /\ LtIdle
    /\ JobIdle /\ LocIdle

NextCmd == build_brew_call \/ build_stop_call

SpecCmd == InitCmd /\ [][NextCmd]_vars

InitKeys == KeysInit /\ CrcIdle /\ TlvIdle /\ CmdIdle /\ AesIdle /\ SessIdle
    /\ MonIdle /\ RecIdle /\ ViewIdle /\ RedIdle /\ PropIdle /\ LtIdle
    /\ JobIdle /\ LocIdle

NextKeys == derive_keys_call

SpecKeys == InitKeys /\ [][NextKeys]_vars

InitAes == AesInit /\ CrcIdle /\ TlvIdle /\ CmdIdle /\ KeysIdle /\ SessIdle
    /\ MonIdle /\ RecIdle /\ ViewIdle /\ RedIdle /\ PropIdle /\ LtIdle
    /\ JobIdle /\ LocIdle

NextAes == aes_encrypt_call \/ aes_decrypt_call \/ aes_decrypt_peer

SpecAes == InitAes /\ [][NextAes]_vars

InitSess == SessInit /\ CrcIdle /\ TlvIdle /\ CmdIdle /\ KeysIdle /\ AesIdle
    /\ MonIdle /\ RecIdle /\ ViewIdle /\ RedIdle /\ PropIdle /\ LtIdle
    /\ JobIdle /\ LocIdle

NextSess ==
    \/ \E d \in Directions : \E payload \in SessionPayloads : session_encrypt(d, payload)
    \/ \E d \in Directions : session_decrypt(d)

SpecSess == InitSess /\ [][NextSess]_vars

InitMon == MonInit /\ CrcIdle /\ TlvIdle /\ CmdIdle /\ KeysIdle /\ AesIdle /\ SessIdle
    /\ RecIdle /\ ViewIdle /\ RedIdle /\ PropIdle /\ LtIdle /\ JobIdle
    /\ LocIdle

NextMon ==
    \/ from_b64_call
    \/ \E payload \in MonPayloads(monB64) : build_monitor_snapshot_call(payload, 7)

SpecMon == InitMon /\ [][NextMon]_vars

InitRec == RecInit /\ CrcIdle /\ TlvIdle /\ CmdIdle /\ KeysIdle /\ AesIdle /\ SessIdle
    /\ MonIdle /\ ViewIdle /\ RedIdle /\ PropIdle /\ LtIdle /\ JobIdle
    /\ LocIdle

NextRec == decode_recipe_call

SpecRec == InitRec /\ [][NextRec]_vars

InitView == ViewInit /\ CrcIdle /\ TlvIdle /\ CmdIdle /\ KeysIdle /\ AesIdle /\ SessIdle
    /\ MonIdle /\ RecIdle /\ RedIdle /\ PropIdle /\ LtIdle /\ JobIdle
    /\ LocIdle

NextView == MonitorView_init \/ \E item \in {"f", "p", "zz"} : getattr_call(item)

SpecView == InitView /\ [][NextView]_vars

InitRed == RedInit /\ CrcIdle /\ TlvIdle /\ CmdIdle /\ KeysIdle /\ AesIdle /\ SessIdle
    /\ MonIdle /\ RecIdle /\ ViewIdle /\ PropIdle /\ LtIdle /\ JobIdle
    /\ LocIdle

NextRed == redact_call

SpecRed == InitRed /\ [][NextRed]_vars

InitProp == PropInit /\ CrcIdle /\ TlvIdle /\ CmdIdle /\ KeysIdle /\ AesIdle /\ SessIdle
    /\ MonIdle /\ RecIdle /\ ViewIdle /\ RedIdle /\ LtIdle /\ JobIdle
    /\ LocIdle

NextProp == get_profile_names_call

SpecProp == InitProp /\ [][NextProp]_vars

InitLt == LtInit /\ CrcIdle /\ TlvIdle /\ CmdIdle /\ KeysIdle /\ AesIdle /\ SessIdle
    /\ MonIdle /\ RecIdle /\ ViewIdle /\ RedIdle /\ PropIdle /\ JobIdle
    /\ LocIdle

NextLt ==
    \/ \E auto_configure \in BOOLEAN, conf \in LtAnswers :
           LocalTransport_init(auto_configure, conf)
    \/ \E conf \in LtAnswers : configure_call(conf)
    \/ \E conf \in LtAnswers, resp \in LtAnswers : send_command_call(conf, resp)
    \/ \E monitor \in LtMonitors, conf \in LtAnswers : set_mappings_call(monitor, conf)

SpecLt == InitLt /\ [][NextLt]_vars

InitJob == JobInit /\ CrcIdle /\ TlvIdle /\ CmdIdle /\ KeysIdle /\ AesIdle /\ SessIdle
    /\ MonIdle /\ RecIdle /\ ViewIdle /\ RedIdle /\ PropIdle /\ LtIdle
    /\ LocIdle

NextJob ==
    \/ \E j \in Jobs : JobManager_start(j)
    \/ JobManager_stop
    \/ JobManager_stop_resumed
    \/ stop_event_set
    \/ \E queued \in {0, 1} : state_changes(queued)
    \/ \E j \in Jobs : wait_for_timeout(j)
    \/ \E j \in Jobs : task_step(j)
    \/ \E j \in Jobs : task_cancelled(j)

SpecJob == InitJob /\ [][NextJob]_vars

\* The event loop goes on running the tasks that are ready, and the calls
\* the jobs await end.
task_runs == \E j \in Jobs : task_step(j) \/ task_cancelled(j)

SpecJobFair == SpecJob /\ WF_vars(task_runs)

InitLoc == LocInit /\ CrcIdle /\ TlvIdle /\ CmdIdle /\ KeysIdle /\ AesIdle /\ SessIdle
    /\ MonIdle /\ RecIdle /\ ViewIdle /\ RedIdle /\ PropIdle /\ LtIdle /\ JobIdle

NextLoc ==
    \/ \E o \in LocOps, d \in Directions : \E arg \in LocArgs(d) :
           session_op_begin(o, d, arg)
    \/ \E o \in LocOps : session_op_end(o)
    \/ \E c \in LocCallers, random_1 \in {<<97>>, <<97, 98>>} :
           rekey_exchange(c, random_1, <<98>>)
    \/ \E c \in LocCallers : rekey_install(c)

SpecLoc == InitLoc /\ [][NextLoc]_vars

(***************************************************************************)
(* Claims.                                                                 *)
(***************************************************************************)

\* The 16-bit register of the CRC as the specification describes it: masked
\* to 16 bits at every step.
RECURSIVE RegShift16(_, _)
ZeroFree(b) == \A i \in 1..Len(b) : b[i] # 0

Last16(b) == SubSeq(b, Len(b) - 15, Len(b))

\* The IV of direction d after its n-th message: the seed before any message.
ChainIv(d, n) == IF n = 0 THEN IvSeed(d) ELSE Last16(cipherLog[d][n])

C1_ChainInv ==
    \A d \in Directions :
        /\ Len(cipherLog[d]) = Len(sentLog[d])
        /\ Len(recvLog[d]) + Len(wire[d]) = Len(sentLog[d])
        /\ sendIv[d] = ChainIv(d, Len(sentLog[d]))
        /\ recvIv[d] = ChainIv(d, Len(recvLog[d]))
        /\ (wire[d] = <<>> => sendIv[d] = recvIv[d])
        /\ \A i \in 1..Len(recvLog[d]) :
               ZeroFree(str_encode(sentLog[d][i])) =>
                   recvLog[d][i] = str_encode(sentLog[d][i])

C1_Independent ==
    \A d \in Directions :
        (sentLog'[d] # sentLog[d] \/ recvLog'[d] # recvLog[d]) =>
            \A e \in Directions \ {d} :
                sendIv'[e] = sendIv[e] /\ recvIv'[e] = recvIv[e]

\* C1: in each direction's chain, started on both sides from the same key
\* and IV seed, the IV the sender holds after its n-th encrypt_payload and the
\* IV the receiver holds after its n-th decrypt_payload are the last 16 bytes
\* of the n-th raw ciphertext, so the two sides hold the same IV once every
\* message is delivered; the receiver recovers the bytes of every zero-free
\* payload in the order sent; and a call on one direction changes no IV of
\* the other direction.
C1_IvChain == []C1_ChainInv /\ [][C1_Independent]_vars

\* C1 witness: one direction has delivered two messages, the first with a
\* two-block ciphertext, the other direction one message, and the rotated IVs
\* differ from the seeds and from each other.
C1_Witness ==
    \E d \in Directions : \E e \in Directions \ {d} :
        /\ Len(recvLog[d]) = 2
        /\ Len(cipherLog[d][1]) = 32
        /\ recvLog[d][2] = str_encode(sentLog[d][2])
        /\ sendIv[d] = recvIv[d]
        /\ sendIv[d] # IvSeed(d)
        /\ Len(recvLog[e]) = 1
        /\ recvIv[e] = Last16(cipherLog[e][1])
        /\ sendIv[d] # sendIv[e]

\* C2: for a string whose UTF-8 bytes hold no zero byte (the empty string
\* and strings of a whole number of blocks included), an AES key and a
\* 16-byte IV, aes_encrypt succeeds and aes_decrypt of its result with the
\* same key and IV returns the bytes of the string.
C2_AesRoundTrip ==
    /\ aesPc \in {"encrypted", "decrypted"} => aesEnc.exc = ""
    /\ (aesPc = "decrypted" /\ ZeroFree(str_encode(aesMsg))) =>
           aesDec = Ok(str_encode(aesMsg))

\* C2 witness: a non-empty zero-free string of a whole number of blocks has
\* made the round trip.
C2_Witness ==
    /\ aesPc = "decrypted"
    /\ aesMsg # <<>>
    /\ ZeroFree(str_encode(aesMsg))
    /\ Len(str_encode(aesMsg)) % 16 = 0
    /\ aesDec = Ok(str_encode(aesMsg))

\* HMAC(K, HMAC(K, M) || M)
DoubleHmac(K, M) == sha256_hmac(K, sha256_hmac(K, M) \o M)

\* C3: derive_keys returns exactly five secrets, each a function of its
\* arguments alone: with K the bytes of lan_key and HMAC2(M) = HMAC(K,
\* HMAC(K, M) || M), app_sign_key = HMAC2(r1 r2 t1 t2 0x30), app_crypto_key =
\* HMAC2(r1 r2 t1 t2 0x31), app_iv_seed = the first 16 bytes of HMAC2(r1 r2
\* t1 t2 0x32), dev_crypto_key = HMAC2(r2 r1 t2 t1 0x31), dev_iv_seed = the
\* first 16 bytes of HMAC2(r2 r1 t2 t1 0x32); nothing else is returned.
C3_DeriveKeys ==
    dkPc = "ret" =>
        LET K  == str_encode(dkArgs.lan_key)
            r1 == str_encode(dkArgs.random_1)
            r2 == str_encode(dkArgs.random_2)
            t1 == str_encode(dkArgs.time_1)
            t2 == str_encode(dkArgs.time_2)
        IN  /\ Len(dkOut) = 5
            /\ dkOut[1] = DoubleHmac(K, r1 \o r2 \o t1 \o t2 \o <<48>>)
            /\ dkOut[2] = DoubleHmac(K, r1 \o r2 \o t1 \o t2 \o <<49>>)
            /\ dkOut[3] = SubSeq(DoubleHmac(K, r1 \o r2 \o t1 \o t2 \o <<50>>), 1, 16)
            /\ dkOut[4] = DoubleHmac(K, r2 \o r1 \o t2 \o t1 \o <<49>>)
            /\ dkOut[5] = SubSeq(DoubleHmac(K, r2 \o r1 \o t2 \o t1 \o <<50>>), 1, 16)

\* C3 witness: derive_keys has returned for nonces whose two orders differ,
\* with 32-byte keys, 16-byte IV seeds and device secrets that differ from
\* the app's.
C3_Witness ==
    /\ dkPc = "ret"
    /\ dkArgs.random_1 # dkArgs.random_2
    /\ Len(dkOut[1]) = 32
    /\ Len(dkOut[3]) = 16
    /\ Len(dkOut[5]) = 16
    /\ dkOut[2] # dkOut[4]
    /\ dkOut[3] # dkOut[5]

RegShift16(reg, n) ==
    IF n = 0 THEN reg
    ELSE RegShift16(IF reg >= 32768
                    THEN BitXor((reg * 2) % 65536, 4129)
                    ELSE (reg * 2) % 65536,
                    n - 1)

Reg16Byte(reg, byte) == RegShift16(BitXor(reg, byte * 256), 8)

RECURSIVE Reg16Range(_, _, _, _)
Reg16Range(reg, data, lo, hi) ==
    IF lo > hi THEN reg
    ELSE IF lo = hi THEN Reg16Byte(reg, data[lo])
    ELSE LET mid   == (lo + hi) \div 2
             first == Reg16Range(reg, data, lo, mid)
         IN  IF first = first THEN Reg16Range(first, data, mid + 1, hi) ELSE first

Reg16(reg, data) == Reg16Range(reg, data, 1, Len(data))

\* C7: for every byte sequence crc16_ccitt returns exactly 2 bytes, the
\* big-endian value of a 16-bit register that starts at 0x1D0F, takes each
\* byte by XOR into its high 8 bits and is then shifted left 8 times with XOR
\* of 0x1021 whenever the bit shifted out was set; the unmasked integer the
\* code keeps, masked with 0xFFFF at the end, agrees with that register.
C7_CrcIsMaskedRegister ==
    crcPc = "ret" =>
        /\ Len(crcOut) = 2
        /\ \A i \in 1..2 : IsByte(crcOut[i])
        /\ crcOut[1] * 256 + crcOut[2] = Reg16(7439, crcData)

\* C7 witness: a call on two bytes has returned, so the unmasked register
\* has grown past 16 bits before the final mask.
C7_Witness ==
    /\ crcPc = "ret"
    /\ Len(crcData) = 2
    /\ Len(crc16_register(PyInt(CRC16_INIT), crcData)) > 16

\* The width of a tag's value in bytes, and whether every value of a mapping
\* fits its tag's width.
TagWidth(tag) == IF tag \in {1, 9, 15} THEN 2 ELSE 1

FitsWidth(d) ==
    \A i \in 1..Len(d) :
        /\ d[i][1] \in 0..255
        /\ d[i][2] >= 0
        /\ d[i][2] < (IF TagWidth(d[i][1]) = 2 THEN 65536 ELSE 256)

\* C4: for every mapping with tags in 0..255 whose values fit their tag's
\* width, parse_tlv_params(encode_tlv_params(m)) equals m.
C4_TlvRoundTrip ==
    (tlvPc = "decoded" /\ FitsWidth(tlvParams)) => DictEq(tlvOut, tlvParams)

\* C4 witness: a decoded mapping of MaxTlvParams entries that holds a
\* two-byte tag with a value above 255 and a tag outside PARAM_ORDER.
C4_Witness ==
    /\ tlvPc = "decoded"
    /\ FitsWidth(tlvParams)
    /\ Len(tlvParams) >= 3
    /\ DictHas(tlvParams, 9) /\ DictGet(tlvParams, 9) = 65535
    /\ DictHas(tlvParams, 255)
    /\ DictHas(tlvParams, 1) /\ DictGet(tlvParams, 1) = 7

\* The place of a tag in the canonical order: its index in PARAM_ORDER, and
\* behind all of PARAM_ORDER by its number otherwise.
CanonRank(tag) ==
    IF \E i \in 1..19 : PARAM_ORDER[i] = tag
    THEN CHOOSE i \in 1..19 : PARAM_ORDER[i] = tag
    ELSE 20 + tag

\* The canonical stream of the mapping with key set K and values val(_).
RECURSIVE CanonTlv(_, _)
CanonTlv(K, d) ==
    IF K = {} THEN <<>>
    ELSE LET t == CHOOSE x \in K : \A y \in K : CanonRank(x) <= CanonRank(y)
             v == DictGet(d, t)
         IN  (IF TagWidth(t) = 2
              THEN <<t, (v \div 256) % 256, v % 256>>
              ELSE <<t, v % 256>>) \o CanonTlv(K \ {t}, d)

\* C5: encode_tlv_params emits each tag once, the tags of PARAM_ORDER first
\* and in its order, then the others ascending; a tag is followed by 2
\* big-endian bytes (tags 0x01, 0x09, 0x0F) or by 1 byte masked to 8 bits;
\* the stream does not depend on the order the mapping was built in.
C5_TlvCanonicalOrder ==
    tlvPc \in {"encoded", "decoded"} =>
        /\ tlvData = CanonTlv(DictKeys(tlvParams), tlvParams)
        /\ Len(tlvData) = 2 * Len(tlvParams)
               + Cardinality(DictKeys(tlvParams) \cap {1, 9, 15})

\* C5 witness: a mapping built in the order 255, 0, 9, 11 (its canonical order
\* is 11, 9, 0, 255) with a value that is masked has been encoded.
C5_Witness ==
    /\ tlvPc = "encoded"
    /\ Len(tlvParams) >= 3
    /\ tlvParams[1] = <<255, 263>>
    /\ tlvParams[2][1] = 0
    /\ tlvParams[3][1] = 9

\* The last value written for a tag among the complete entries of a stream.
LastValue(entries, tag) ==
    entries[CHOOSE i \in 1..Len(entries) :
                /\ entries[i][1] = tag
                /\ \A j \in (i + 1)..Len(entries) : entries[j][1] # tag][2]

\* C6: parse_tlv_params returns a mapping for any byte sequence: exactly the
\* entries that are complete, read left to right, a later occurrence of a tag
\* overwriting an earlier one; an entry cut short at the end is dropped.
C6_TlvParseTotal ==
    tlvPc \in {"parsed", "parsedcut"} =>
        /\ \A i, j \in 1..Len(tlvOut) : tlvOut[i][1] = tlvOut[j][1] => i = j
        /\ DictKeys(tlvOut) = {tlvWire[i][1] : i \in 1..Len(tlvWire)}
        /\ \A t \in DictKeys(tlvOut) : DictGet(tlvOut, t) = LastValue(tlvWire, t)

\* C6 witness: a stream of two complete entries of one tag with different
\* values, cut after the first value byte of a two-byte tag, has been parsed.
C6_Witness ==
    /\ tlvPc = "parsedcut"
    /\ Len(tlvWire) = 2
    /\ tlvWire[1][1] = tlvWire[2][1]
    /\ tlvWire[1][2] # tlvWire[2][2]
    /\ Len(tlvData) >= 2
    /\ tlvData[Len(tlvData) - 1] \in TWO_BYTE_PARAMS
    /\ Len(tlvData) \in {6, 8}

\* The bytes a hex string stands for.
HexVal(c) == CHOOSE v \in 0..15 : HexDigits[v + 1] = c

IsHexString(h) ==
    /\ Len(h) % 2 = 0
    /\ \A i \in 1..Len(h) : \E v \in 0..15 : HexDigits[v + 1] = h[i]

BytesOfHex(h) ==
    [i \in 1..(Len(h) \div 2) |-> 16 * HexVal(h[2 * i - 1]) + HexVal(h[2 * i])]

\* The CRC of the specification (the masked 16-bit register), as 2 bytes.
RefCrc(data) == <<Reg16(7439, data) \div 256, Reg16(7439, data) % 256>>

\* The arguments of the brew call at hand, and the length of the frame they
\* ask for: 6 bytes of header, the TLV entries, 2 bytes of CRC.
BrewBev == cmdBev[1]

BrewTrigger == IF cmdTrigger = <<>> THEN 1 ELSE cmdTrigger[1]

BrewFrameLen ==
    8 + 2 * Len(cmdParams) + Cardinality(DictKeys(cmdParams) \cap {1, 9, 15})

BrewReturned == cmdPc = "ret" /\ cmdOp = "brew"

\* bev_id, trigger and every tag are bytes and the frame's length fits the
\* length byte.
BrewInDomain ==
    /\ BrewBev \in 0..255
    /\ BrewTrigger \in 0..255
    /\ \A t \in DictKeys(cmdParams) : t \in 0..255
    /\ BrewFrameLen <= 255

\* The frame a hex string holds is a brew frame for the call at hand.
BrewFrameOf(h) ==
    LET frame == BytesOfHex(h)
        n     == Len(frame)
    IN  /\ IsHexString(h)
        /\ n >= 8
        /\ frame[1] = 13
        /\ frame[2] = n
        /\ frame[3] = 131 /\ frame[4] = 240
        /\ frame[5] = BrewBev
        /\ frame[6] = BrewTrigger
        /\ SubSeq(frame, 7, n - 2) = encode_tlv_params(cmdParams).val
        /\ SubSeq(frame, n - 1, n) = RefCrc(SubSeq(frame, 1, n - 2))

\* C8: for bev_id and trigger in 0..255 and a mapping whose frame is at most
\* 255 bytes, build_brew_command returns the hex of [0x0D, L, 0x83, 0xF0,
\* bev_id, trigger] ++ encode_tlv_params(params) ++ crc16 of all that, with L
\* the total length of the frame; the trigger defaults to 0x01 and the frame
\* of an empty mapping has 8 bytes.
C8_BrewFrame ==
    (BrewReturned /\ BrewInDomain) =>
        /\ cmdOut.exc = ""
        /\ BrewFrameOf(cmdOut.val)
        /\ Len(cmdOut.val) = 2 * BrewFrameLen
        /\ cmdTrigger = <<>> => BytesOfHex(cmdOut.val)[6] = 1
        /\ cmdParams = <<>> => Len(cmdOut.val) = 16

\* C8 witness: a call without a trigger argument and with 122 tags has
\* returned a frame of 255 bytes, the largest the length byte can state.
C8_Witness ==
    /\ BrewReturned
    /\ BrewInDomain
    /\ cmdTrigger = <<>>
    /\ Len(cmdParams) = 122
    /\ Len(cmdOut.val) = 510

C10_StopFrame ==
    (cmdPc = "ret" /\ cmdOp = "stop") =>
        LET b     == IF cmdBev = <<>> THEN 16 ELSE cmdBev[1]
            frame == BytesOfHex(cmdOut.val)
        IN  /\ cmdOut = build_brew_command(b, <<<<15, 250>>, <<27, 1>>>>, 2)
            /\ cmdOut.exc = ""
            /\ IsHexString(cmdOut.val)
            /\ frame = <<13, 13, 131, 240, b, 2, 15, 0, 250, 27, 1>>
                           \o RefCrc(<<13, 13, 131, 240, b, 2, 15, 0, 250, 27, 1>>)

\* C10 witness: build_stop_command() without an argument has returned.
C10_Witness ==
    /\ cmdPc = "ret"
    /\ cmdOp = "stop"
    /\ cmdBev = <<>>
    /\ cmdOut.exc = ""

\* The decoded buffer of the text at hand, and the conditions under which
\* the monitor decoder must refuse it.
MonDecoded == a2b_base64(monB64)

MonRefused(raw) ==
    \/ Len(raw) < 4
    \/ raw[2] < 4
    \/ Len(raw) < raw[2] + 1
    \/ SubSeq(raw, raw[2], raw[2] + 1) # RefCrc(SubSeq(raw, 1, raw[2] - 1))
    \/ raw[2] - 5 # 13

MonitorFrameFields ==
    {"direction", "request_id", "answer_required", "accessory", "switches",
     "alarms", "status", "action", "progress", "timestamp", "extra", "raw",
     "raw_b64"}

\* C11: MonitorFrame.from_b64 raises, and returns no frame, exactly when the
\* text does not decode, or the decoded buffer has fewer than 4 bytes, or its
\* length byte is below 4, or it has fewer than length + 1 bytes, or the two
\* bytes at [length - 1, length + 1) differ from the CRC of bytes [0, length
\* - 1), or the contents after the 2-byte request header are not 13 bytes; a
\* frame returned has a length byte of 18 and every one of its fields.
C11_MonitorStrict ==
    monPc = "frame" =>
        /\ monOut.exc # "" <=> (MonDecoded.exc # "" \/ MonRefused(MonDecoded.val))
        /\ monOut.exc = "" =>
               /\ MonDecoded.val[2] = 18
               /\ DOMAIN monOut.val = MonitorFrameFields

\* C11 witness: a buffer whose length byte (19) and CRC agree with its size
\* has been refused for its contents alone.
C11_Witness ==
    /\ monPc = "frame"
    /\ MonDecoded.exc = ""
    /\ MonDecoded.val[2] = 19
    /\ Len(MonDecoded.val) >= 20
    /\ SubSeq(MonDecoded.val, 19, 20) = RefCrc(SubSeq(MonDecoded.val, 1, 18))
    /\ monOut.exc = "Monitor contents expected to be 13 bytes for V2 frames"

\* C12: a frame returned by from_b64 has direction = byte 0, request_id =
\* byte 2, answer_required = byte 3 and, over the 13 content bytes c = bytes
\* 4..16, accessory = c[0], switches = c[1..2], alarms = c[3..4] then
\* c[8..9], status = c[5], action = c[6], progress = c[7]; the bytes after
\* the CRC (bytes 17..18) are accepted, the first up to 4 as timestamp and
\* the rest as extra.
C12_MonitorFields ==
    (monPc = "frame" /\ monOut.exc = "") =>
        LET raw == MonDecoded.val
            f   == monOut.val
        IN  /\ f.direction = raw[1]
            /\ f.request_id = raw[3]
            /\ f.answer_required = raw[4]
            /\ f.accessory = raw[5]
            /\ f.switches = <<raw[6], raw[7]>>
            /\ f.alarms = <<raw[8], raw[9], raw[13], raw[14]>>
            /\ f.status = raw[10]
            /\ f.action = raw[11]
            /\ f.progress = raw[12]
            /\ f.timestamp = SubSeq(raw, 20, Min(23, Len(raw)))
            /\ f.extra = SubSeq(raw, 24, Len(raw))
            /\ f.timestamp \o f.extra = SubSeq(raw, 20, Len(raw))

\* C12 witness: a frame followed by 6 bytes has been decoded, with distinct
\* content bytes.
C12_Witness ==
    /\ monPc = "frame"
    /\ monOut.exc = ""
    /\ monOut.val.alarms = <<4, 5, 9, 10>>
    /\ monOut.val.switches = <<2, 3>>
    /\ monOut.val.timestamp = <<1, 2, 3, 4>>
    /\ monOut.val.extra = <<5, 6>>

\* The monitor value of the payload at hand: the text under "monitor_b64",
\* else the text under monitor.data.value, else nothing.
MonItem(d, key) == IF d.t = "dict" /\ DictHas(d.v, key) THEN DictGet(d.v, key) ELSE PyNone

MonValue ==
    IF Truthy(MonItem(monPayload, "monitor_b64"))
    THEN MonItem(monPayload, "monitor_b64")
    ELSE MonItem(MonItem(MonItem(monPayload, "monitor"), "data"), "value")

\* C13: build_monitor_snapshot returns a snapshot for every payload dict:
\* without a monitor value the snapshot has empty raw data and the warning
\* 'no monitor_b64 in payload'; with one, the snapshot has a frame exactly
\* when its errors list is empty, and without a frame the errors list holds
\* a parse_failed entry and parsed holds at most raw_length.
C13_SnapshotNeverRaises ==
    monPc = "snapshot" =>
        /\ monSnap.exc = ""
        /\ ~Truthy(MonValue) =>
               /\ monSnap.val.raw = <<>>
               /\ monSnap.val.warnings = <<"no monitor_b64 in payload">>
        /\ Truthy(MonValue) =>
               /\ monSnap.val.frame # <<>> <=> monSnap.val.errors = <<>>
               /\ monSnap.val.frame = <<>> =>
                      /\ Len(monSnap.val.errors) = 1
                      /\ monSnap.val.errors[1][1] = "parse_failed"
                      /\ \A i \in 1..Len(monSnap.val.parsed) :
                             monSnap.val.parsed[i][1] = "raw_length"

\* C13 witness: a payload whose monitor_b64 is a text that is no base64 (its
\* last character lost) has made build_monitor_snapshot raise ValueError.
C13_Witness ==
    /\ monPc = "snapshot"
    /\ DictHas(monPayload.v, "monitor_b64")
    /\ MonValue.t = "str"
    /\ a2b_base64(MonValue.v).exc = "binascii.Error"
    /\ monSnap.exc = "ValueError"

\* The decoded buffer of the recipe text at hand, the snapshot the decoder
\* returned for it, and the frame the text was built from with its CRC left
\* intact.
RecDecoded == a2b_base64(recB64)

RecSnapshot == recOut[1]

RecPristine == decode_recipe_b64(RecText([recParts EXCEPT !.at = 0]))

RecCrcAtEnd(raw) ==
    SubSeq(raw, Len(raw) - 1, Len(raw)) = RefCrc(SubSeq(raw, 1, Len(raw) - 2))

\* C14: a buffer [0xD0, length, 0xA6, 0xF0, profile, bev_id, TLV..., CRC]
\* whose last two bytes are the CRC of the bytes before them and whose length
\* byte is its size or its size minus one decodes to format 'profile', profile
\* = byte 4, bev_id = byte 5, params = parse_tlv_params of bytes 6 up to the
\* CRC, named_params = named_params(params) and crc_ok = True.
C14_ProfileFrame ==
    (/\ recPc = "ret"
     /\ RecDecoded.exc = ""
     /\ Len(RecDecoded.val) >= 8
     /\ RecDecoded.val[1] = 208
     /\ RecDecoded.val[2] \in {Len(RecDecoded.val), Len(RecDecoded.val) - 1}
     /\ RecDecoded.val[3] = 166
     /\ RecDecoded.val[4] = 240
     /\ RecCrcAtEnd(RecDecoded.val)) =>
        LET raw == RecDecoded.val
        IN  /\ recOut # <<>>
            /\ RecSnapshot.format = "profile"
            /\ RecSnapshot.profile = <<raw[5]>>
            /\ RecSnapshot.bev_id = raw[6]
            /\ RecSnapshot.params = parse_tlv_params(SubSeq(raw, 7, Len(raw) - 2))
            /\ RecSnapshot.named_params = named_params(RecSnapshot.params)
            /\ RecSnapshot.crc_ok

\* C14 witness: the frame of profile 1, beverage 1 and TLV {0x01: 0x24, 0x1B:
\* 4, 0x02: 5}, its length byte being the total length, has been decoded.
C14_Witness ==
    /\ recPc = "ret"
    /\ RecDecoded.exc = ""
    /\ Len(RecDecoded.val) = 15
    /\ RecDecoded.val[2] = Len(RecDecoded.val)
    /\ SubSeq(RecDecoded.val, 1, 1) \o SubSeq(RecDecoded.val, 3, 13)
           = <<208, 166, 240, 1, 1, 1, 0, 36, 27, 4, 2, 5>>
    /\ RecCrcAtEnd(RecDecoded.val)
    /\ recOut # <<>>
    /\ RecSnapshot.format = "profile"
    /\ RecSnapshot.params = << <<1, 36>>, <<27, 4>>, <<2, 5>> >>
    /\ RecSnapshot.named_params
           = << <<<<"coffee_ml">>, 36>>, <<<<"taste">>, 4>>, <<<<"temperature">>, 5>> >>
    /\ RecSnapshot.crc_ok

\* C15: for a profile or default frame that is the whole buffer (length byte
\* at least the size minus one), damaging the stored CRC bytes still yields a
\* snapshot, with the format, bev_id, profile and params of the undamaged
\* frame; crc_ok is True exactly when the last two bytes are the CRC of the
\* bytes before them.
C15_LenientCrc ==
    (/\ recPc = "ret"
     /\ recParts.marker = 208
     /\ recParts.keep = 0
     /\ recParts.variant = 1
     /\ recParts.trailer = <<>>
     /\ recParts.mode # "zero"
     /\ SubSeq(recParts.head, 1, 2) \in {<<166, 240>>, <<176, 240>>}) =>
        /\ recOut # <<>>
        /\ RecPristine # <<>>
        /\ RecSnapshot.format = RecPristine[1].format
        /\ RecSnapshot.bev_id = RecPristine[1].bev_id
        /\ RecSnapshot.profile = RecPristine[1].profile
        /\ RecSnapshot.params = RecPristine[1].params
        /\ RecSnapshot.crc_ok <=> RecCrcAtEnd(RecDecoded.val)
        /\ RecSnapshot.crc_ok <=> recParts.at = 0

\* C15 witness: a profile frame whose second CRC byte is damaged has been
\* decoded with its parameters and crc_ok = False.
C15_Witness ==
    /\ recPc = "ret"
    /\ recParts.at = 2
    /\ recParts.trailer = <<>>
    /\ recParts.mode = "total"
    /\ recParts.head = <<166, 240, 1, 1>>
    /\ recParts.tlv = <<1, 0, 36>>
    /\ recOut # <<>>
    /\ RecSnapshot.format = "profile"
    /\ RecSnapshot.params = << <<1, 36>> >>
    /\ ~RecSnapshot.crc_ok

\* C16: decode_recipe_b64 returns None exactly when the text does not
\* decode, or decodes to fewer than 6 bytes, or to a first byte other than
\* 0xD0; otherwise a snapshot of format 'profile' for the command word
\* 0xA6F0, 'default' for 0xB0F0 and 'unknown' for any other, the last with
\* bev_id 0, profile None, no params, crc_ok False and the hex of the buffer.
C16_Classifies ==
    recPc = "ret" =>
        /\ recOut = <<>> <=>
               \/ RecDecoded.exc # ""
               \/ Len(RecDecoded.val) < 6
               \/ RecDecoded.val[1] # 208
        /\ recOut # <<>> =>
               LET raw == RecDecoded.val
                   cmd == raw[3] * 256 + raw[4]
               IN  /\ Len(recOut) = 1
                   /\ RecSnapshot.raw_hex = hex(raw)
                   /\ RecSnapshot.format
                          = IF cmd = 42736 THEN "profile"
                            ELSE IF cmd = 45296 THEN "default" ELSE "unknown"
                   /\ RecSnapshot.format = "unknown" =>
                          /\ RecSnapshot.bev_id = 0
                          /\ RecSnapshot.profile = <<>>
                          /\ RecSnapshot.params = <<>>
                          /\ RecSnapshot.named_params = <<>>
                          /\ ~RecSnapshot.crc_ok

\* C16 witness: a sealed frame of command word 0x83F0 has been decoded to an
\* 'unknown' snapshot.
C16_Witness ==
    /\ recPc = "ret"
    /\ RecDecoded.exc = ""
    /\ Len(RecDecoded.val) >= 8
    /\ SubSeq(RecDecoded.val, 3, 4) = <<131, 240>>
    /\ RecCrcAtEnd(RecDecoded.val)
    /\ recOut # <<>>
    /\ RecSnapshot.format = "unknown"

\* C17: a buffer [0xD0, length, 0xB0, 0xF0, bev_id, TLV..., CRC] whose last
\* two bytes are its CRC and whose length byte is its size or its size minus
\* one decodes to format 'default', profile None, bev_id = byte 4, and params
\* (with their named view) equal to the TLV decode of bytes 5 up to the CRC.
C17_DefaultFrame ==
    (/\ recPc = "ret"
     /\ RecDecoded.exc = ""
     /\ Len(RecDecoded.val) >= 7
     /\ RecDecoded.val[1] = 208
     /\ RecDecoded.val[2] \in {Len(RecDecoded.val), Len(RecDecoded.val) - 1}
     /\ RecDecoded.val[3] = 176
     /\ RecDecoded.val[4] = 240
     /\ RecCrcAtEnd(RecDecoded.val)) =>
        LET raw == RecDecoded.val
        IN  /\ recOut # <<>>
            /\ RecSnapshot.format = "default"
            /\ RecSnapshot.profile = <<>>
            /\ RecSnapshot.bev_id = raw[5]
            /\ RecSnapshot.params = parse_tlv_params(SubSeq(raw, 6, Len(raw) - 2))
            /\ RecSnapshot.named_params = named_params(RecSnapshot.params)

\* C17 witness: the default frame of beverage 1 with TLV {0x01: 0x24} has
\* been decoded to a snapshot without parameters.
C17_Witness ==
    /\ recPc = "ret"
    /\ RecDecoded.exc = ""
    /\ Len(RecDecoded.val) = 10
    /\ RecDecoded.val[2] = Len(RecDecoded.val)
    /\ SubSeq(RecDecoded.val, 3, 8) = <<176, 240, 1, 1, 0, 36>>
    /\ RecCrcAtEnd(RecDecoded.val)
    /\ recOut # <<>>
    /\ RecSnapshot.format = "default"
    /\ RecSnapshot.bev_id = 1
    /\ RecSnapshot.crc_ok
    /\ RecSnapshot.params = <<>>
    /\ RecSnapshot.named_params = <<>>

\* C18: a snapshot returned by decode_recipe_b64 has a profile in 1..4 when
\* its format is 'profile', and profile None when its format is 'default' or
\* 'unknown'.
C18_ProfileRange ==
    (recPc = "ret" /\ recOut # <<>>) =>
        IF RecSnapshot.format = "profile"
        THEN RecSnapshot.profile # <<>> /\ RecSnapshot.profile[1] \in 1..4
        ELSE RecSnapshot.profile = <<>>

\* C18 witness: a sealed profile frame whose profile byte is 5 has been
\* decoded to a 'profile' snapshot of profile 5.
C18_Witness ==
    /\ recPc = "ret"
    /\ RecDecoded.exc = ""
    /\ Len(RecDecoded.val) >= 8
    /\ RecDecoded.val[5] = 5
    /\ RecCrcAtEnd(RecDecoded.val)
    /\ recOut # <<>>
    /\ RecSnapshot.format = "profile"
    /\ RecSnapshot.crc_ok
    /\ RecSnapshot.profile = <<5>>

\* The flag "f" and the predicate "p" of the profile at hand, the byte array
\* a source names in the frame of the view, and what it means for a byte and
\* bit address to lie inside it.
ViewFlag == viewConfig.flags[1][2]

ViewPredicate == viewConfig.predicates[1][2]

ViewBytes(source) ==
    IF source = "alarms" THEN viewFrame[1].alarms ELSE viewFrame[1].switches

ViewInRange(source, byte, bit) ==
    /\ source \in {"alarms", "switches"}
    /\ byte \in 0..(Len(ViewBytes(source)) - 1)
    /\ bit \in 0..7

RefBit(byte_value, bit) == (byte_value \div (2 ^ bit)) % 2 = 1

ViewBit(source, byte, bit) == RefBit(ViewBytes(source)[byte + 1], bit)

ViewFlagValue ==
    ViewBit(ViewFlag.source, ViewFlag.byte, ViewFlag.bit) # ViewFlag.invert

ViewField(source) ==
    IF source \in {"alarms", "switches"} THEN PyBytes(ViewBytes(source))
    ELSE PyNum(viewFrame[1][source])

ViewAddressed(definition) ==
    /\ definition.source # <<>>
    /\ definition.source[1] \in {"alarms", "switches"}
    /\ definition.byte # <<>>
    /\ definition.bit # <<>>

\* C19: looking up a configured flag or predicate on a MonitorView never
\* raises; without a decoded frame every flag and every predicate gives
\* None; with a frame, a flag or bit predicate whose byte index lies outside
\* the byte array of its source (negative indexes included) or whose bit lies
\* outside 0..7 gives None.
C19_ViewNeverRaises ==
    (viewPc = "done" /\ viewItem \in {"f", "p"}) =>
        /\ viewOut.exc = ""
        /\ viewFrame = <<>> => viewOut.val = <<>>
        /\ (/\ viewFrame # <<>>
            /\ viewItem = "f"
            /\ ViewFlag.source \in {"alarms", "switches"}
            /\ ~ViewInRange(ViewFlag.source, ViewFlag.byte, ViewFlag.bit))
               => viewOut.val = <<>>
        /\ (/\ viewFrame # <<>>
            /\ viewItem = "p"
            /\ uses_bit_address(ViewPredicate)
            /\ ViewAddressed(ViewPredicate)
            /\ ~ViewInRange(ViewPredicate.source[1], ViewPredicate.byte[1],
                            ViewPredicate.bit[1]))
               => viewOut.val = <<>>

\* C19 witness: on a view without a frame, whose profile went through
\* from_dict, an equals predicate on the status has given False.
C19_Witness ==
    /\ viewPc = "done"
    /\ viewConfig.loaded = "dict"
    /\ viewFrame = <<>>
    /\ viewItem = "p"
    /\ ViewPredicate.kind = "equals"
    /\ ViewPredicate.source = <<"status">>
    /\ ViewPredicate.value = PyNum(6)
    /\ viewOut = Ok(<<FALSE>>)

\* On a view with a frame, whose profile went through from_dict, a bit_set
\* predicate of byte -1 has given the bit of the last byte of the array.
C19_WitnessNegative ==
    /\ viewPc = "done"
    /\ viewConfig.loaded = "dict"
    /\ viewFrame # <<>>
    /\ viewItem = "p"
    /\ ViewPredicate.kind = "bit_set"
    /\ ViewPredicate.source = <<"alarms">>
    /\ ViewPredicate.byte = <<-1>>
    /\ ViewPredicate.bit = <<0>>
    /\ viewOut = Ok(<<RefBit(viewFrame[1].alarms[4], 0)>>)

\* A flag of a profile given as a MonitorProfile object, with bit 8, has
\* raised ValueError out of the lookup.
C19_WitnessRaises ==
    /\ viewPc = "done"
    /\ viewConfig.loaded = "object"
    /\ viewFrame # <<>>
    /\ viewItem = "f"
    /\ ViewFlag.bit = 8
    /\ viewOut.exc = "ValueError"

\* C20: on a view with a frame (alarms of 4 bytes, switches of 2), a flag
\* with an in-range address is bit `bit` of byte `byte` of the array its
\* source names, negated when invert is set; flag_true is the flag and
\* flag_false its negation; bit_set is the addressed bit of the source's
\* array and bit_clear its negation; equals and in_set compare the source
\* field with the value and with the value set, not_equals and not_in_set
\* are their negations.
C20_ViewValues ==
    (viewPc = "done" /\ viewFrame # <<>>) =>
        /\ Len(viewFrame[1].alarms) = 4
        /\ Len(viewFrame[1].switches) = 2
        /\ (/\ viewItem = "f"
            /\ ViewInRange(ViewFlag.source, ViewFlag.byte, ViewFlag.bit))
               => viewOut = Ok(<<ViewFlagValue>>)
        /\ (/\ viewItem = "p"
            /\ uses_flag(ViewPredicate)
            /\ ViewPredicate.flag = <<"f">>
            /\ ViewInRange(ViewFlag.source, ViewFlag.byte, ViewFlag.bit))
               => viewOut = Ok(<<(ViewPredicate.kind = "flag_true") = ViewFlagValue>>)
        /\ (/\ viewItem = "p"
            /\ uses_bit_address(ViewPredicate)
            /\ ViewAddressed(ViewPredicate)
            /\ ViewInRange(ViewPredicate.source[1], ViewPredicate.byte[1],
                           ViewPredicate.bit[1]))
               => viewOut = Ok(<<(ViewPredicate.kind = "bit_set")
                                  = ViewBit(ViewPredicate.source[1],
                                            ViewPredicate.byte[1],
                                            ViewPredicate.bit[1])>>)
        /\ (/\ viewItem = "p"
            /\ ViewPredicate.kind \in {"equals", "not_equals"}
            /\ ViewPredicate.source # <<>>
            /\ ViewPredicate.source[1] \in VALID_SOURCES)
               => viewOut = Ok(<<(ViewPredicate.kind = "equals")
                                  = (ViewField(ViewPredicate.source[1])
                                         = ViewPredicate.value)>>)
        /\ (/\ viewItem = "p"
            /\ ViewPredicate.kind \in {"in_set", "not_in_set"}
            /\ ViewPredicate.source # <<>>
            /\ ViewPredicate.source[1] \in VALID_SOURCES)
               => viewOut = Ok(<<(ViewPredicate.kind = "in_set")
                                  = (ViewPredicate.values # <<>>
                                       /\ SeqHas(ViewPredicate.values[1],
                                              ViewField(ViewPredicate.source[1])))>>)

\* C20 witness: on the frame with alarms 32, 16, 6, 99 the flag of alarms
\* byte 3, bit 0, not inverted, has given True.
C20_Witness ==
    /\ viewPc = "done"
    /\ viewFrame # <<>>
    /\ viewFrame[1].alarms = <<32, 16, 6, 99>>
    /\ viewItem = "f"
    /\ ViewFlag = FlagDefinition("alarms", 3, 0, FALSE)
    /\ viewOut = Ok(<<TRUE>>)

\* The bytes of data before its first zero byte, all of data when it has
\* none.
BeforeZero(data) ==
    IF ZeroFree(data) THEN data
    ELSE SubSeq(data, 1, (CHOOSE i \in 1..Len(data) :
                              data[i] = 0 /\ ZeroFree(SubSeq(data, 1, i - 1))) - 1)

\* C29: aes_decrypt returns the decrypted bytes before their first zero byte,
\* and all of them when there is none: of a peer's message that fills its
\* blocks exactly no byte is dropped.
C29_UnpadZero ==
    /\ (aesPc = "decrypted" /\ aesDec.exc = "") =>
           aesDec.val = BeforeZero(str_encode(aesMsg))
    /\ (aesPc = "received" /\ aesDec.exc = "") =>
           aesDec.val = BeforeZero(aesMsg)

\* C29 witness: a zero-free message of the peer that fills one block has been
\* decrypted to its first 15 bytes.
C29_Witness ==
    /\ aesPc = "received"
    /\ Len(aesMsg) = 16
    /\ ZeroFree(aesMsg)
    /\ aesDec = Ok(SubSeq(aesMsg, 1, 15))

\* The keys that hold secret material: the LAN key, the five secrets that
\* derive_keys returns, and the enc and sign fields of an envelope.
SecretKeys ==
    {"lan_key", "app_sign_key", "app_crypto_key", "app_iv_seed", "dev_crypto_key",
     "dev_iv_seed", "enc", "sign"}

\* C30: for two details dicts that differ only in the values under the
\* secret keys redact returns the same output, and every other key passes
\* through with its value.
C30_RedactHides ==
    redPc = "ret" =>
        /\ (\A i \in 1..Len(redDetails[1]) :
                redDetails[1][i][1] \notin SecretKeys
                    => redDetails[1][i][2] = redDetails[2][i][2])
               => redOut[1] = redOut[2]
        /\ \A n \in {1, 2} :
               /\ Len(redOut[n]) = Len(redDetails[n])
               /\ \A i \in 1..Len(redDetails[n]) :
                      redDetails[n][i][1] \notin SecretKeys
                          => redOut[n][i] = redDetails[n][i]

\* C30 witness: two dicts that differ in the value under app_sign_key alone
\* have been redacted to different outputs, the signing key in clear.
C30_Witness ==
    /\ redPc = "ret"
    /\ Len(redDetails[1]) = 2
    /\ redDetails[1][1] = <<"app_sign_key", "k3Zq">>
    /\ redDetails[2][1] = <<"app_sign_key", "Ab91">>
    /\ redDetails[1][2] = redDetails[2][2]
    /\ redOut[1][1] = <<"app_sign_key", "k3Zq">>
    /\ redOut[2][1] = <<"app_sign_key", "Ab91">>

\* The character code of a character of a base64 text (65: the space), the
\* properties d051 .. d054 by profile number, and the plain-text name held
\* by the property of a profile, if any.
TextCode(ch) ==
    CASE ch \in 0..25  -> 65 + ch
      [] ch \in 26..51 -> 71 + ch
      [] ch \in 52..61 -> ch - 4
      [] ch = 62       -> 43
      [] ch = 63       -> 47
      [] ch = 64       -> 61
      [] OTHER         -> 32

ProfileProperty == <<"d051", "d052", "d053", "d054">>

PropNamed(k) ==
    {i \in 1..Len(propRaw) :
        /\ propRaw[i][2].t = "dict"
        /\ propRaw[i][2].name[1] = ProfileProperty[k]
        /\ propRaw[i][2].value.t = "str"
        /\ propRaw[i][2].value.v \in PropTexts[ProfileProperty[k]]}

PropNameText(i) ==
    [j \in 1..Len(propRaw[i][2].value.v) |-> TextCode(propRaw[i][2].value.v[j])]

\* C23: get_profile_names maps profile 1, 2, 3, 4 to the name held by the
\* property d051, d052, d053, d054, for each of them that is present with a
\* name as its value, and returns an empty mapping when none of the four
\* properties is present.
C23_ProfileNames ==
    propPc = "ret" =>
        /\ \A k \in 1..4 : \A i \in PropNamed(k) :
               DictHas(propOut, k) /\ DictGet(propOut, k) = PropNameText(i)
        /\ (\A i \in 1..Len(propRaw) :
                propRaw[i][2].t = "dict" => propRaw[i][2].name[1] \notin
                    {"d051", "d052", "d053", "d054"})
               => propOut = <<>>

\* C23 witness: with d051 = 'Bartek', d052 = 'Anita', d053 = 'Explorer 3' and
\* d054 = 'Explorer 4' get_profile_names has returned the empty mapping.
C23_Witness ==
    /\ propPc = "ret"
    /\ \A k \in 1..4 : PropNamed(k) # {}
    /\ \E i \in PropNamed(1) : PropNameText(i) = <<66, 97, 114, 116, 101, 107>>
    /\ \E i \in PropNamed(2) : PropNameText(i) = <<65, 110, 105, 116, 97>>
    /\ propOut = <<>>

\* The names of a 0xA4F0 frame under d051 (profiles 1 to 3) and of one under
\* d052 (profile 4) have been returned.
C23_WitnessFrames ==
    /\ propPc = "ret"
    /\ DictEq(propOut, << <<1, <<66, 97, 114, 116, 101, 107>> >>,
                          <<2, <<65, 110, 105, 116, 97>> >>,
                          <<3, <<74, 111>> >>,
                          <<4, <<65, 110, 105, 116, 97>> >> >>)

\* C28: every POST to /command comes after a POST to /configure answered 200
\* or 201; _configured turns true only with such an answer as the last
\* /configure sent and never turns false; a send_command that finds the
\* transport unconfigured posts /configure first, and when that fails it
\* raises, posts no command and leaves _configured false.
C28_Configured ==
    \A i \in 1..Len(ltPosts) :
        ltPosts[i][1] = "/command" =>
            \E j \in 1..(i - 1) :
                ltPosts[j][1] = "/configure" /\ ltPosts[j][2] \in {<<200>>, <<201>>}

C28_Steps ==
    /\ ltPc = "ready" =>
           /\ ltSelf.configured => ltSelf'.configured
           /\ (~ltSelf.configured /\ ltSelf'.configured) =>
                  /\ Len(ltPosts') > Len(ltPosts)
                  /\ ltPosts'[Len(ltPosts')][1] \in {"/configure", "/command"}
                  /\ \E j \in (Len(ltPosts) + 1)..Len(ltPosts') :
                         ltPosts'[j][1] = "/configure"
                             /\ ltPosts'[j][2] \in {<<200>>, <<201>>}
           /\ (~ltSelf.configured /\ ltCall' = "send_command"
                   /\ ltPosts' # ltPosts) =>
                  /\ ltPosts'[Len(ltPosts) + 1][1] = "/configure"
                  /\ ltPosts'[Len(ltPosts) + 1][2] \notin {<<200>>, <<201>>} =>
                         /\ ltOut' # ""
                         /\ Len(ltPosts') = Len(ltPosts) + 1
                         /\ ~ltSelf'.configured
    /\ ltPc = "new" => (ltPc' = "ready" /\ ltSelf'.configured =>
                            ltPosts' = << <<"/configure", <<200>>>> >>
                                \/ ltPosts' = << <<"/configure", <<201>>>> >>)

C28_ConfigureFirst == []C28_Configured /\ [][C28_Steps]_vars

\* C28 witness: a send_command on an unconfigured transport has failed to
\* configure, and a later one has configured and posted the command.
C28_Witness ==
    /\ ltPc = "ready"
    /\ ltPosts = << <<"/configure", <<500>>>>, <<"/configure", <<201>>>>,
                   <<"/command", <<200>>>> >>
    /\ ltCall = "send_command"
    /\ ltSelf.configured
    /\ ltOut = ""

\* A task that has ended, and one that ended otherwise than by cancellation.
TaskDone(co) == co.task \in {"returned", "cancelled", "raised"}

\* C27: JobManager.stop has requested the cancellation of every task of the
\* list when it awaits one, has returned only when every started task has
\* ended, and ends by returning with the task list empty, however the tasks
\* ended.
C27_StopClears ==
    /\ jobMgr.pc = "await" =>
           \A i \in 1..Len(jobMgr.tasks) : jobCo[jobMgr.tasks[i]].task # "pending"
    /\ jobMgr.pc = "returned" =>
           \A j \in Jobs : jobCo[j].task # "none" => TaskDone(jobCo[j])
    /\ jobMgr.pc \notin {"idle", "await"} =>
           jobMgr.pc = "returned" /\ jobMgr.tasks = <<>>

\* C27 witness: stop() has raised the exception of the nudger task, with the
\* tasks still in the list and a task after it still to end.
C27_Witness ==
    /\ jobMgr.pc = "raised"
    /\ jobMgr.tasks = <<"nudger_job", "rekey_job">>
    /\ jobCo["nudger_job"].task = "raised"
    /\ jobCo["rekey_job"].task = "cancelling"

\* C24: rekey_job calls state.rekey() only when an interval has elapsed with
\* the stop event not set, calls register_with_device only after rekey()
\* returned, and when either raises logs rekey_failed, does nothing more in the
\* cycle and goes on with the loop.
C24_Cycle ==
    LET co == jobCo["rekey_job"] IN
    /\ co.pc \in {"rekey", "register"} => co.did = <<>>
    /\ co.task # "raised"
    /\ co.did \in {<<>>, <<"rekey_failed">>, <<"rekey_triggered">>}

C24_Steps ==
    LET co == jobCo["rekey_job"]
        to == jobCo'["rekey_job"]
    IN  /\ (to.pc = "timeout" /\ co.pc # "timeout") => (co.pc = "wait" /\ ~jobStop)
        /\ (to.pc = "rekey" /\ co.pc # "rekey") => co.pc = "timeout"
        /\ (to.pc = "register" /\ co.pc # "register") => co.pc = "rekey"
        /\ (co.pc \in {"rekey", "register"} /\ to.pc # co.pc /\ to.task # "cancelled") =>
               \/ co.pc = "rekey" /\ to.pc = "register"
               \/ /\ to.did \in {<<"rekey_failed">>, <<"rekey_triggered">>}
                  /\ to.did = <<"rekey_triggered">> => co.pc = "register"
                  /\ to.pc = (IF jobStop THEN "done" ELSE "wait")

C24_RekeyJob == []C24_Cycle /\ [][C24_Steps]_vars

\* C24 witness: a call of the cycle has raised after an interval elapsed, the
\* failure is logged, the device is not registered and the job waits for the
\* next interval.
C24_Witness ==
    /\ jobCo["rekey_job"].pc = "wait"
    /\ jobCo["rekey_job"].task = "pending"
    /\ jobCo["rekey_job"].did = <<"rekey_failed">>
    /\ jobTimeouts = 1
    /\ jobCo["nudger_job"].task = "none"
    /\ ~jobSt.registered

\* C25: nudger_job calls register_with_device exactly when the queue is not
\* empty or the device is not registered; when the call fails it logs, calls
\* rekey() once and keeps polling; the job ends, unless cancelled, only by
\* returning with the stop event set.
C25_Steps ==
    LET co == jobCo["nudger_job"]
        to == jobCo'["nudger_job"]
    IN  /\ (co.pc = "lock" /\ to.pc # "lock" /\ to.task # "cancelled") =>
               /\ (to.pc = "register") = (jobSt.command_queue > 0 \/ ~jobSt.registered)
               /\ to.pc \in {"register", "wait"}
        /\ (co.pc = "register" /\ to.pc # "register" /\ to.task # "cancelled") =>
               \/ to.pc = "wait" /\ to.did = <<>>
               \/ to.pc = "rekey" /\ to.did = <<"local_reg_nudge_failed">>
        /\ (to.pc = "rekey" /\ co.pc # "rekey") => co.pc = "register"
        /\ (co.pc = "rekey" /\ to.pc # "rekey" /\ to.task # "cancelled") =>
               to.pc = "wait" /\ to.did = co.did
        /\ (~TaskDone(co) /\ TaskDone(to) /\ to.task # "cancelled") =>
               jobStop /\ to.task = "returned"

C25_NudgerJob == [][C25_Steps]_vars

\* C25 witness: the registration of the nudger has failed, rekey() has
\* raised, and the task has ended with the stop event not set.
C25_Witness ==
    /\ jobCo["nudger_job"].task = "raised"
    /\ jobCo["nudger_job"].did = <<"local_reg_nudge_failed">>
    /\ ~jobStop

\* C26: a job that has observed the stop event has returned, with no call
\* started since; a job enters no timeout once the event is set; and a
\* started job ends once the event is set.
C26_Observed ==
    \A j \in Jobs : jobCo[j].seen => (jobCo[j].pc = "done" /\ jobCo[j].task = "returned")

C26_NoInterval ==
    \A j \in Jobs : (jobStop /\ jobCo'[j].pc = "timeout") => jobCo[j].pc = "timeout"

C26_JobsTerminate ==
    /\ []C26_Observed
    /\ [][C26_NoInterval]_vars
    /\ jobStop ~> (\A j \in Jobs : jobCo[j].task # "none" => TaskDone(jobCo[j]))

\* C26 witness: the three jobs have observed the stop event and returned, the
\* nudger after it registered the device, with no interval elapsed.
C26_Witness ==
    /\ jobStop
    /\ jobTimeouts = 0
    /\ jobSt.registered
    /\ \A j \in Jobs : jobCo[j].seen /\ jobCo[j].task = "returned"

\* The IV an operation of direction d must start from after n operations of
\* d under the installed keys: the seed, then the last block of the n-th raw
\* ciphertext.
LocChainIv(d, n) ==
    IF n = 0 THEN LocSeed(locKeys, d) ELSE Last16(b64decode(locLog[d][n][2]))

\* C21: on each direction of a local session the operations are serialized
\* and the IV advances exactly once per message: the k-th operation under the
\* installed keys started from the IV the (k-1)-th left, the direction holds
\* the IV the last one left, and an operation in flight has read that IV.
C21_Chain ==
    \A d \in Directions :
        /\ \A k \in 1..Len(locLog[d]) : locLog[d][k][1] = LocChainIv(d, k - 1)
        /\ locIv[d] = LocChainIv(d, Len(locLog[d]))
        /\ \A o \in LocOps :
               (locOps[o].pc = "crypto" /\ locOps[o].d = d) =>
                   (locLock[d] = o /\ locOps[o].iv = locIv[d])

C21_Serial ==
    \A d \in Directions :
        /\ Len(locLog'[d]) \in {0, Len(locLog[d]), Len(locLog[d]) + 1}
        /\ Len(locLog'[d]) = Len(locLog[d]) + 1 =>
               \E o \in LocOps : locLock[d] = o /\ locOps'[o].pc = "done"
        /\ locIv'[d] # locIv[d] =>
               \/ \E o \in LocOps : locLock[d] = o /\ locOps'[o].pc = "done"
               \/ \E c \in LocCallers : locRekeys[c] # <<>> /\ locRekeys'[c] = <<>>

C22_Wholesale ==
    /\ \E k \in 1..Len(locExchanges) : locKeys = locExchanges[k]
    /\ \A o \in LocOps :
           locOps[o].pc # "idle" =>
               \E k \in 1..Len(locExchanges) : locOps[o].keys = locExchanges[k]

\* C22 witness: two rekey() calls were in progress together; an operation
\* has read the keys of the first exchange and another the keys a rekey
\* installed, while the other rekey has not installed its keys yet.
C22_Witness ==
    /\ Len(locExchanges) = 3
    /\ \E c \in LocCallers : locRekeys[c] # <<>> /\ locRekeys[c] # locKeys
    /\ locKeys # locExchanges[1]
    /\ locKeys[4] # locExchanges[1][4]
    /\ \E o \in LocOps : locOps[o].pc = "done" /\ locOps[o].keys = locExchanges[1]
    /\ \E o \in LocOps : locOps[o].pc = "crypto" /\ locOps[o].keys = locKeys

====
